---- MODULE Spec2Model ----
(***************************************************************************)
(* Render-mode coordination layer of react-ppr-from-scratch:               *)
(*   - the cache module of src/src/dynamic-apis.js (cacheStore, cached(),  *)
(*     cachedComponent(), and the cache signal: beginCacheRead,            *)
(*     endCacheRead, cacheReady, noMorePendingCaches, resetCacheSignal);   *)
(*   - the render context of src/src/async-storage.js (renderStorage,      *)
(*     the prerender / request stores, trackDynamicAccess) and the dynamic *)
(*     accessors of src/src/dynamic-apis.js (cookies, headers,             *)
(*     getCurrentTime, connection).                                        *)
(*                                                                         *)
(* Strings that take part in a key are sequences of one-character strings, *)
(* so that key generation is the concatenation the code performs.          *)
(***************************************************************************)
EXTENDS Integers, Sequences, FiniteSets, TLC

VARIABLES
    cacheStore,            \* dynamic-apis.js:202  Map key -> value
    pendingCacheReads,     \* dynamic-apis.js:292
    cacheReadyResolvers,   \* dynamic-apis.js:293  list of resolve functions (waiter ids)
    hasStartedReading,     \* dynamic-apis.js:294
    startReadingResolver,  \* dynamic-apis.js:295
    immediates,            \* setImmediate callbacks queued by scheduleAfterEventLoop
    timers,                \* setTimeout(cb, 0) callbacks queued by those immediates
    waiters,               \* the promises returned by cacheReady()
    calls,                 \* invocations of cachedFunction / CachedComponentWrapper
    stores,                \* the store objects made by createPrerenderStore / createRequestStore
    tasks,                 \* asynchronous execution contexts (inside or outside renderStorage.run)
    writer,                \* history: which call stored the current entry of each key
    sinceClear,            \* history: calls whose producer's result was stored since the last clearCache
    readsBegun,            \* history: number of beginCacheRead calls so far
    resets,                \* history: number of resetCacheSignal calls so far
    lastOp,                \* history: the operation that made the last step
    currentPhase,          \* dynamic-apis.js:208  'none' | 'prospective' | 'final'
    cacheFile,             \* ./dist/cache.json (dynamic-apis.js:205)
    buildPc,               \* where build() of build.js stands
    renders,               \* the prerenders build() started: store, task, abort signal
    exitCode,              \* the build process: "running", or the code it ended with
    dist,                  \* ./dist: shell.html, metadata.json, postponed.json
    raised,                \* history: the errors the passes of build() raised
    responses              \* server.js: one record per request GET / received

sigVars == <<pendingCacheReads, cacheReadyResolvers, hasStartedReading, startReadingResolver>>
loopVars == <<immediates, timers>>
cacheVars == <<cacheStore, writer, sinceClear>>
ctxVars == <<stores, tasks>>
buildVars == <<currentPhase, cacheFile, buildPc, renders, exitCode, dist, raised>>
serverVars == <<responses>>
coordVars == <<buildVars, serverVars>>
vars == <<cacheStore, pendingCacheReads, cacheReadyResolvers, hasStartedReading,
          startReadingResolver, immediates, timers, waiters, calls, stores, tasks,
          writer, sinceClear, readsBegun, resets, lastOp, currentPhase, cacheFile,
          buildPc, renders, exitCode, dist, raised, responses>>

(***************************************************************************)
(* Bounds of the model.                                                    *)
(***************************************************************************)
MaxCalls == 2
MaxWaiters == 1
MaxResets == 1
MaxRuns == 2
MaxAccesses == 2
MaxRequests == 2
MaxTogether == 2

(***************************************************************************)
(* Strings as character sequences, and JSON.stringify on the argument      *)
(* values the model draws.                                                 *)
(***************************************************************************)
Num(d) == [t |-> "num", v |-> d]
Str(s) == [t |-> "str", v |-> s]
Null == [t |-> "null", v |-> <<>>]
Undefined == [t |-> "undefined", v |-> <<>>]
\* an object, given as its <<name, value>> fields in order
Obj(fields) == [t |-> "obj", v |-> fields]

RECURSIVE JsonEscape(_)
\* JSON.stringify of a string's characters: quote and backslash are escaped.
JsonEscape(s) ==
    IF s = <<>> THEN <<>>
    ELSE (IF Head(s) = "\"" THEN <<"\\", "\"">>
          ELSE IF Head(s) = "\\" THEN <<"\\", "\\">>
          ELSE <<Head(s)>>) \o JsonEscape(Tail(s))

RECURSIVE JsonValue(_)
RECURSIVE JsonFields(_)
\* JSON.stringify of one array item: a number prints its digits, a string is quoted,
\* an object prints its fields in braces, null and undefined both print null.
JsonValue(a) ==
    IF a.t = "num" THEN a.v
    ELSE IF a.t = "str" THEN <<"\"">> \o JsonEscape(a.v) \o <<"\"">>
    ELSE IF a.t = "obj" THEN <<"{">> \o JsonFields(a.v) \o <<"}">>
    ELSE <<"n", "u", "l", "l">>

RECURSIVE JsonItems(_)
JsonItems(args) ==
    IF args = <<>> THEN <<>>
    ELSE IF Len(args) = 1 THEN JsonValue(args[1])
    ELSE JsonValue(args[1]) \o <<",">> \o JsonItems(Tail(args))

\* JSON.stringify(args) of the rest-parameter array.
JsonStringifyArgs(args) == <<"[">> \o JsonItems(args) \o <<"]">>

JsonFields(props) ==
    IF props = <<>> THEN <<>>
    ELSE LET f == <<"\"">> \o JsonEscape(props[1][1]) \o <<"\"", ":">> \o JsonValue(props[1][2])
         IN IF Len(props) = 1 THEN f ELSE f \o <<",">> \o JsonFields(Tail(props))

\* JSON.stringify(props) of a props object, given as its <<name, value>> fields in order.
JsonStringifyProps(props) == <<"{">> \o JsonFields(props) \o <<"}">>

RECURSIVE StringOfArgs(_)
\* String(args): what `${args}` would give, the items joined by commas, unquoted.
StringOfArgs(args) ==
    IF args = <<>> THEN <<>>
    ELSE IF Len(args) = 1 THEN args[1].v
    ELSE args[1].v \o <<",">> \o StringOfArgs(Tail(args))

generateCacheKeyUnserialized(name, args) == name \o <<":">> \o StringOfArgs(args)

\* dynamic-apis.js:275-278
generateCacheKey(name, args) == name \o <<":">> \o JsonStringifyArgs(args)

\* the key cached() would derive for the same name with props as its one argument
componentCacheKeyAsCached(name, props) ==
    name \o <<":">> \o <<"[">> \o JsonStringifyProps(props) \o <<"]">>

\* dynamic-apis.js:473
componentCacheKey(name, props) ==
    <<"c", "o", "m", "p", "o", "n", "e", "n", "t", ":">> \o name \o <<":">> \o JsonStringifyProps(props)

KeyOf(kind, name, input) ==
    IF kind = "cached" THEN generateCacheKey(name, input) ELSE componentCacheKey(name, input)

(***************************************************************************)
(* The cache store.                                                        *)
(***************************************************************************)
EmptyMap == [k \in {} |-> "none"]

IsCacheHitNever(store, key) == FALSE

\* dynamic-apis.js:395 and :476  cacheStore.has(cacheKey)
IsCacheHit(store, key) == key \in DOMAIN store

\* dynamic-apis.js:417 and :492  cacheStore.set(cacheKey, result)
MapSet(store, key, value) ==
    [k \in DOMAIN store \cup {key} |-> IF k = key THEN value ELSE store[k]]

(***************************************************************************)
(* The cache signal.                                                       *)
(***************************************************************************)
NoCheck == [born |-> -1, pass |-> -1, by |-> "none"]

\* The callback noMorePendingCaches hands to scheduleAfterEventLoop.  The code's
\* closure carries no data; the fields are history: how many reads had begun
\* and how many resets had happened when it was scheduled, and who scheduled it.
Check(born, pass, by) == [born |-> born, pass |-> pass, by |-> by]

\* dynamic-apis.js:320-324 scheduleAfterEventLoop: the callback is queued with setImmediate.
scheduleAfterEventLoop(queue, cb) == Append(queue, cb)

EndReadSchedulesUnstarted(count, started) == count = 0 /\ ~started

\* dynamic-apis.js:309  the condition under which endCacheRead calls noMorePendingCaches
EndReadSchedules(count, started) == count = 0 /\ started

ReadySchedulesWhenBusy(count) == count > 0

\* dynamic-apis.js:338  the condition under which cacheReady calls noMorePendingCaches
ReadySchedules(count) == count = 0

CheckSettlesAlways(count) == TRUE

\* dynamic-apis.js:352  the debounce check's condition
CheckSettles(count) == count = 0

ResolvedByCheckFirstOnly(resolvers) == IF resolvers = <<>> THEN {} ELSE {Head(resolvers)}

\* dynamic-apis.js:354  cacheReadyResolvers.forEach(resolve => resolve())
ResolvedByCheck(resolvers) == {resolvers[i] : i \in DOMAIN resolvers}

ResetKeepsResolvers(resolvers) == resolvers

\* dynamic-apis.js:366  cacheReadyResolvers = []
ResetResolvers(resolvers) == <<>>

CountAfterHitBegun(count) == count + 1

\* dynamic-apis.js:395-398 and :476-479: a hit returns before beginCacheRead() (:411,
\* :485) is reached, so the count is what it was.
CountAfterHit(count) == count

SettleCountOnSuccessOnly(count, ok) == IF ok THEN count - 1 ELSE count

\* dynamic-apis.js:421-424 and :496-498 with :308: the finally block runs endCacheRead
\* whether the awaited producer resolved (ok) or rejected.
SettleCount(count, ok) == count - 1

\* What an accessor call gave its caller: kind is "return", "postpone" or "throw";
\* store is the store it read, jar the cookies it parsed, list the array it returned.
NoOutcome ==
    [api |-> "none", kind |-> "none", error |-> "none", store |-> 0, jar |-> EmptyMap,
     list |-> <<>>]

\* follows: the operations this one came directly after, when they form the start of
\* saveCache(); clearCache(); loadCache().  before: the store saveCache() serialized.
Op(name, id) ==
    [op |-> name, id |-> id, check |-> NoCheck, expr |-> "none", out |-> NoOutcome,
     follows |-> "none", before |-> EmptyMap]

(***************************************************************************)
(* Inputs.                                                                 *)
(***************************************************************************)
Names == {<<"f">>, <<"f", ":", "g">>}
ArgLists == {<<Num(<<"1">>)>>, <<Str(<<"g", ":", "1">>)>>, <<Null>>, <<Undefined>>}
PropsSet == {<<>>, << <<<<"i", "d">>, Num(<<"1">>)>> >>}
Values == {"v1", "v2"}
\* What else a memoized producer may resolve with: undefined (an async function that
\* returns nothing), and a React element, which is what AsyncComponentImpl returns
\* (components/AsyncComponent.js:44): an object whose $$typeof property is a Symbol.
UndefinedValue == "undefined"
ReactElement == "{ $$typeof: Symbol, type, key, props }"
PlainObject == "{ type, key, props }"
PersistValues == {"v1", UndefinedValue, ReactElement}
Errors == {"e1", "e2"}
NoValue == "none"
Apis == {"cookies()", "headers()", "getCurrentTime()", "connection()"}
Expressions == {"custom()"}
CookieAlice == <<"u", "s", "e", "r", "n", "a", "m", "e", "=", "A", "l", "i", "c", "e">>
CookieTwo == <<"x", "=", "1", ";", " ", "u", "s", "e", "r", "n", "a", "m", "e", "=", "B", "=", "b">>
Requests == {[hasCookie |-> FALSE, cookie |-> <<>>],
             [hasCookie |-> TRUE, cookie |-> CookieAlice],
             [hasCookie |-> TRUE, cookie |-> CookieTwo]}

(***************************************************************************)
(* cached(name, fn) and cachedComponent(name, Component): one invocation   *)
(* of the wrapper up to its first suspension.  `outcome` is what the       *)
(* producer does when it is invoked on a miss: "suspends" (it returns a    *)
(* promise that settles later) or an error it throws synchronously.        *)
(***************************************************************************)
SerializedInput(kind, input) ==
    IF kind = "cached" THEN JsonStringifyArgs(input) ELSE JsonStringifyProps(input)

\* history: the calls of the same wrapper (kind and name) with the same serialized
\* input whose producer's result was stored since the last clearCache
PriorOf(kind, name, input) ==
    {c \in sinceClear : /\ calls[c].kind = kind
                        /\ calls[c].name = name
                        /\ SerializedInput(kind, calls[c].input) = SerializedInput(kind, input)}

\* history: the step before was an endCacheRead that brought the count to 0 and
\* called noMorePendingCaches (dynamic-apis.js:307-313) while a waiter of cacheReady()
\* was pending, so a call made now is made by a continuation that runs directly
\* after it
EndedAtZero ==
    /\ lastOp.op \in {"producerResolved", "producerRejected", "cacheMissThrew"}
    /\ EndReadSchedules(pendingCacheReads, hasStartedReading)
    /\ cacheReadyResolvers # <<>>

FinalMissStopsInFinal(kind, phase) == phase = "final"

\* dynamic-apis.js:401-405: the block under isFinalRender() only logs, it neither
\* returns nor throws; cachedComponent has no such block (:481).
FinalMissStops(kind, phase) == FALSE

NewCall(kind, name, input, key) ==
    [kind |-> kind, name |-> name, input |-> input, key |-> key, pc |-> "awaiting",
     invoked |-> TRUE, result |-> NoValue, producerError |-> "none", thrown |-> "none",
     prior |-> PriorOf(kind, name, input), servedBy |-> 0,
     seen |-> Cardinality(DOMAIN cacheStore), pass |-> resets, phase |-> currentPhase,
     afterEnd |-> EndedAtZero, ctx |-> 1]

ValueOnHitOwnContext(t, store, key) ==
    IF writer[key] # 0 /\ tasks[calls[writer[key]].ctx].scope # tasks[t].scope
    THEN NoValue
    ELSE store[key]

\* dynamic-apis.js:397 and :478  return cacheStore.get(cacheKey): cacheStore is the
\* module's one Map (:202), read without renderStorage
ValueOnHit(t, store, key) == store[key]

\* dynamic-apis.js:391-426 (kind "cached") and :471-499 (kind "component"), called in
\* the asynchronous context t; ctx is history, the wrappers never read the context.
cachedFunctionIn(t, kind, name, input, outcome) ==
    LET key == KeyOf(kind, name, input)
        id == Len(calls) + 1
    IN
    /\ t \in DOMAIN tasks
    /\ Len(calls) < MaxCalls
    /\ IF IsCacheHit(cacheStore, key)
       THEN \* cache hit: return cacheStore.get(cacheKey)
            /\ outcome = "suspends"
            /\ calls' = Append(calls, [NewCall(kind, name, input, key) EXCEPT
                                          !.pc = "returned", !.invoked = FALSE,
                                          !.ctx = t,
                                          !.result = ValueOnHit(t, cacheStore, key),
                                          !.servedBy = writer[key]])
            /\ pendingCacheReads' = CountAfterHit(pendingCacheReads)
            /\ lastOp' = Op("cacheHit", id)
            /\ UNCHANGED <<cacheReadyResolvers, hasStartedReading, startReadingResolver,
                           loopVars, readsBegun>>
       ELSE IF FinalMissStops(kind, currentPhase)
       THEN /\ outcome = "suspends"
            /\ calls' = Append(calls, [NewCall(kind, name, input, key) EXCEPT
                                          !.ctx = t,
                                          !.pc = "threw", !.invoked = FALSE,
                                          !.thrown = "miss"])
            /\ lastOp' = Op("cacheMissStopped", id)
            /\ UNCHANGED <<sigVars, loopVars, readsBegun>>
       ELSE IF outcome = "suspends"
       THEN \* cache miss: beginCacheRead(), then await fn(...args)
            /\ calls' = Append(calls, [NewCall(kind, name, input, key) EXCEPT !.ctx = t])
            /\ pendingCacheReads' = pendingCacheReads + 1
            /\ hasStartedReading' = TRUE
            /\ startReadingResolver' = "null"
            /\ readsBegun' = readsBegun + 1
            /\ lastOp' = Op("cacheMiss", id)
            /\ UNCHANGED <<cacheReadyResolvers, loopVars>>
       ELSE \* cache miss, fn throws before returning a promise: beginCacheRead(),
            \* then the finally block runs endCacheRead() in the same turn
            /\ calls' = Append(calls, [NewCall(kind, name, input, key) EXCEPT
                                          !.ctx = t,
                                          !.pc = "threw", !.producerError = outcome,
                                          !.thrown = outcome])
            /\ pendingCacheReads' = SettleCount(pendingCacheReads + 1, FALSE)
            /\ hasStartedReading' = TRUE
            /\ startReadingResolver' = "null"
            /\ readsBegun' = readsBegun + 1
            /\ immediates' =
                 IF EndReadSchedules(pendingCacheReads', TRUE)
                 THEN scheduleAfterEventLoop(immediates, Check(readsBegun + 1, resets, "endCacheRead"))
                 ELSE immediates
            /\ lastOp' = Op("cacheMissThrew", id)
            /\ UNCHANGED <<cacheReadyResolvers, timers>>
    /\ UNCHANGED <<coordVars, cacheVars, waiters, ctxVars, resets>>

\* A call of a wrapper made by the module's top-level code (context 1, outside every
\* renderStorage.run) or where the context plays no part
cachedFunction(kind, name, input, outcome) == cachedFunctionIn(1, kind, name, input, outcome)

StoreKeepsFirst(store, key, value) ==
    IF key \in DOMAIN store THEN store ELSE MapSet(store, key, value)

\* dynamic-apis.js:417 and :491  cacheStore.set(cacheKey, result): Map.set replaces the
\* entry when the key is present
StoreResult(store, key, value) == MapSet(store, key, value)

\* dynamic-apis.js:414-424 and :488-498: the awaited producer resolved with `value`;
\* the result is stored, then the finally block runs endCacheRead().
producerResolved(c, value) ==
    /\ c \in DOMAIN calls
    /\ calls[c].pc = "awaiting"
    /\ cacheStore' = StoreResult(cacheStore, calls[c].key, value)
    /\ writer' = MapSet(writer, calls[c].key, c)
    /\ sinceClear' = sinceClear \cup {c}
    /\ calls' = [calls EXCEPT ![c].pc = "returned", ![c].result = value]
    /\ pendingCacheReads' = SettleCount(pendingCacheReads, TRUE)
    /\ immediates' =
         IF EndReadSchedules(pendingCacheReads', hasStartedReading)
         THEN scheduleAfterEventLoop(immediates, Check(readsBegun, resets, "endCacheRead"))
         ELSE immediates
    /\ lastOp' = Op("producerResolved", c)
    /\ UNCHANGED <<coordVars, cacheReadyResolvers, hasStartedReading, startReadingResolver, timers,
                   waiters, ctxVars, readsBegun, resets>>

\* dynamic-apis.js:414, 421-424 and :488, 496-498: the awaited producer rejected with
\* `error`; nothing is stored, the finally block runs endCacheRead(), the error goes on.
producerRejected(c, error) ==
    /\ c \in DOMAIN calls
    /\ calls[c].pc = "awaiting"
    /\ calls' = [calls EXCEPT ![c].pc = "threw", ![c].producerError = error,
                              ![c].thrown = error]
    /\ pendingCacheReads' = SettleCount(pendingCacheReads, FALSE)
    /\ immediates' =
         IF EndReadSchedules(pendingCacheReads', hasStartedReading)
         THEN scheduleAfterEventLoop(immediates, Check(readsBegun, resets, "endCacheRead"))
         ELSE immediates
    /\ lastOp' = Op("producerRejected", c)
    /\ UNCHANGED <<coordVars, cacheVars, cacheReadyResolvers, hasStartedReading, startReadingResolver,
                   timers, waiters, ctxVars, readsBegun, resets>>

\* dynamic-apis.js:215-218
setRenderPhase(phase) ==
    /\ currentPhase' = phase
    /\ lastOp' = Op("setRenderPhase", 0)
    /\ UNCHANGED <<cacheVars, sigVars, loopVars, waiters, calls, ctxVars, readsBegun, resets,
                   cacheFile, buildPc, renders, exitCode, dist, raised, serverVars>>

\* dynamic-apis.js:431-438: reads cacheStore, currentPhase and pendingCacheReads into a
\* new object
getCacheStats ==
    /\ lastOp' = Op("getCacheStats", 0)
    /\ UNCHANGED <<coordVars, cacheVars, sigVars, loopVars, waiters, calls, ctxVars, readsBegun,
                   resets>>

\* JSON.stringify leaves out a property whose value is undefined
JsonOmits(value) == value = UndefinedValue

\* JSON.stringify of a stored value: data is written as it is; of an object the
\* Symbol-valued properties are left out
JsonStringifyValue(value) ==
    IF value = ReactElement THEN <<"json", PlainObject>> ELSE <<"json", value>>

\* JSON.parse of what JsonStringifyValue wrote
JsonParseValue(text) == text[2]

\* dynamic-apis.js:258-262 saveCache: Object.fromEntries(cacheStore.entries()) written
\* with JSON.stringify
SerializeCache(store) ==
    [exists |-> TRUE,
     data |-> [k \in {key \in DOMAIN store : ~JsonOmits(store[key])} |->
                 JsonStringifyValue(store[k])]]

StoreAfterLoadReplaces(store, file) ==
    IF file.exists
    THEN [k \in DOMAIN file.data |-> JsonParseValue(file.data[k])]
    ELSE store

\* dynamic-apis.js:242-249: JSON.parse of the file, each entry set in the store
StoreAfterLoad(store, file) ==
    IF file.exists
    THEN [k \in DOMAIN store \cup DOMAIN file.data |->
            IF k \in DOMAIN file.data THEN JsonParseValue(file.data[k]) ELSE store[k]]
    ELSE store

FileAfterClearRemoved(file) == [exists |-> FALSE, data |-> EmptyMap]

\* dynamic-apis.js:267-270: clearCache() is cacheStore.clear() and a log line; the
\* file is what it was
FileAfterClear(file) == file

\* dynamic-apis.js:267-270
clearCache ==
    /\ cacheStore # EmptyMap
    /\ cacheStore' = EmptyMap
    /\ writer' = EmptyMap
    /\ sinceClear' = {}
    /\ cacheFile' = FileAfterClear(cacheFile)
    /\ lastOp' = IF lastOp.op = "saveCache"
                 THEN [Op("clearCache", 0) EXCEPT !.follows = "saveCache",
                                                  !.before = lastOp.before]
                 ELSE Op("clearCache", 0)
    /\ UNCHANGED <<currentPhase, buildPc, renders, exitCode, dist, raised, serverVars,
                   sigVars, loopVars, waiters, calls, ctxVars, readsBegun, resets>>

\* dynamic-apis.js:258-262
saveCache ==
    /\ cacheFile' = SerializeCache(cacheStore)
    /\ lastOp' = [Op("saveCache", 0) EXCEPT !.before = cacheStore]
    /\ UNCHANGED <<currentPhase, buildPc, renders, exitCode, dist, raised, serverVars,
                   cacheVars, sigVars, loopVars, waiters, calls, ctxVars, readsBegun, resets>>

\* dynamic-apis.js:241-253: every entry of the file is set in the store, over what the
\* store holds; without a file nothing happens.  A loaded entry has no writing call.
loadCache ==
    /\ cacheStore' = StoreAfterLoad(cacheStore, cacheFile)
    /\ writer' = [k \in DOMAIN cacheStore' |->
                     IF cacheFile.exists /\ k \in DOMAIN cacheFile.data THEN 0 ELSE writer[k]]
    /\ lastOp' = IF lastOp.op = "clearCache" /\ lastOp.follows = "saveCache"
                 THEN [Op("loadCache", 0) EXCEPT !.follows = "saveCache, clearCache",
                                                 !.before = lastOp.before]
                 ELSE Op("loadCache", 0)
    /\ UNCHANGED <<coordVars, sinceClear, sigVars, loopVars, waiters, calls, ctxVars,
                   readsBegun, resets>>

(***************************************************************************)
(* The cache signal's own operations and the event loop's turns.           *)
(***************************************************************************)
\* dynamic-apis.js:334-344, with at most `limit` calls of cacheReady() in a run
cacheReadyWithin(limit) ==
    /\ Len(waiters) < limit
    /\ waiters' = Append(waiters, [status |-> "pending", pass |-> resets,
                                  busy |-> pendingCacheReads > 0,
                                  regAt |-> readsBegun,
                                  fresh |-> ~hasStartedReading])
    /\ cacheReadyResolvers' = Append(cacheReadyResolvers, Len(waiters) + 1)
    /\ immediates' =
         IF ReadySchedules(pendingCacheReads)
         THEN scheduleAfterEventLoop(immediates, Check(readsBegun, resets, "cacheReady"))
         ELSE immediates
    /\ lastOp' = Op("cacheReady", Len(waiters) + 1)
    /\ UNCHANGED <<coordVars, cacheVars, pendingCacheReads, hasStartedReading, startReadingResolver,
                   timers, calls, ctxVars, readsBegun, resets>>

\* dynamic-apis.js:334-344
cacheReady == cacheReadyWithin(MaxWaiters)

\* dynamic-apis.js:321-322: the setImmediate callback runs and arms setTimeout(cb, 0)
runImmediate ==
    /\ immediates # <<>>
    /\ immediates' = Tail(immediates)
    /\ timers' = Append(timers, Head(immediates))
    /\ lastOp' = Op("runImmediate", 0)
    /\ UNCHANGED <<coordVars, cacheVars, sigVars, waiters, calls, ctxVars, readsBegun, resets>>

\* history: the reads begun up to and including call c
BeginIndex(c) == Cardinality({d \in 1..c : calls[d].invoked})

\* history: call c began the first read after check k was scheduled
BeganNextAfter(c, k) == calls[c].invoked /\ calls[c].pass = k.pass /\ BeginIndex(c) = k.born + 1

\* dynamic-apis.js:351-358: the timer fires and the debounce check runs
noMorePendingCachesCheck ==
    /\ timers # <<>>
    /\ timers' = Tail(timers)
    /\ IF CheckSettles(pendingCacheReads)
       THEN /\ waiters' = [w \in DOMAIN waiters |->
                              IF w \in ResolvedByCheck(cacheReadyResolvers)
                              THEN [waiters[w] EXCEPT !.status = "resolved"]
                              ELSE waiters[w]]
            /\ cacheReadyResolvers' = <<>>
       ELSE UNCHANGED <<waiters, cacheReadyResolvers>>
    /\ lastOp' = [Op("check", 0) EXCEPT !.check = Head(timers)]
    /\ UNCHANGED <<coordVars, cacheVars, pendingCacheReads, hasStartedReading, startReadingResolver,
                   immediates, calls, ctxVars, readsBegun, resets>>

\* dynamic-apis.js:364-369
resetCacheSignal ==
    /\ resets < MaxResets
    /\ resets' = resets + 1
    /\ pendingCacheReads' = 0
    /\ cacheReadyResolvers' = ResetResolvers(cacheReadyResolvers)
    /\ hasStartedReading' = FALSE
    /\ startReadingResolver' = "null"
    /\ lastOp' = Op("resetCacheSignal", 0)
    /\ UNCHANGED <<coordVars, cacheVars, loopVars, waiters, calls, ctxVars, readsBegun>>

(***************************************************************************)
(* The render context: renderStorage, the stores, the dynamic accessors.   *)
(***************************************************************************)
createPrerenderStoreFlagged ==
    [type |-> "prerender", dynamicAccesses |-> <<>>, accessedDynamicData |-> TRUE]

\* async-storage.js:38-49
createPrerenderStore ==
    [type |-> "prerender", dynamicAccesses |-> <<>>, accessedDynamicData |-> FALSE]

\* async-storage.js:57-64
createRequestStore(req) == [type |-> "request", request |-> req]

\* An asynchronous execution context.  scope is the store of the renderStorage.run
\* call it runs inside (an index of stores), 0 outside every run.
\* at is where a component's function stands when the context is one ("none" for the
\* contexts that are not).
Task(scope) == [scope |-> scope, at |-> "none"]

\* The module's top-level code: build.js:291 and server.js:39-289 run outside every
\* renderStorage.run.
MainTask == Task(0)

\* bound of the model: the contexts of a run, those of the components included
MaxTasks == 2 * MaxRuns + 1

renderStorageGetStoreShared(t) == Len(stores)

\* async-storage.js:23, :70, :95 and dynamic-apis.js:67, :108, :137, :157:
\* renderStorage.getStore() gives the store of the run the caller executes inside.
renderStorageGetStore(t) == tasks[t].scope

ContextMissingNever(s) == FALSE

\* async-storage.js:71 and dynamic-apis.js:69, :110, :139, :159: if (!store)
ContextMissing(s) == s = 0

\* async-storage.js:97  store?.type
StoreType(s) == IF s = 0 THEN "undefined" ELSE stores[s].type

TrackedWithoutFlag(store, expression, t) ==
    [store EXCEPT !.dynamicAccesses = Append(@, [expression |-> expression, stack |-> t])]

\* async-storage.js:98-102: the store after trackDynamicAccess recorded the access;
\* the stack trace is stood for by the calling context.
Tracked(store, expression, t) ==
    [store EXCEPT !.dynamicAccesses = Append(@, [expression |-> expression, stack |-> t]),
                  !.accessedDynamicData = TRUE]

\* async-storage.js:94-106: the stores after trackDynamicAccess(expression) in context t
StoresAfterTrack(t, expression) ==
    LET s == renderStorageGetStore(t) IN
    IF StoreType(s) = "prerender"
    THEN [stores EXCEPT ![s] = Tracked(stores[s], expression, t)]
    ELSE stores

RECURSIVE SplitOn(_, _)
\* String.prototype.split(sep) for a one-character separator
SplitOn(str, sep) ==
    IF \A i \in DOMAIN str : str[i] # sep THEN <<str>>
    ELSE LET i == CHOOSE j \in DOMAIN str : str[j] = sep /\ \A k \in 1..(j - 1) : str[k] # sep
         IN <<SubSeq(str, 1, i - 1)>> \o SplitOn(SubSeq(str, i + 1, Len(str)), sep)

RECURSIVE Trim(_)
Trim(str) ==
    IF str = <<>> THEN str
    ELSE IF Head(str) = " " THEN Trim(Tail(str))
    ELSE IF str[Len(str)] = " " THEN Trim(SubSeq(str, 1, Len(str) - 1))
    ELSE str

RECURSIVE JoinWith(_, _)
JoinWith(parts, sep) ==
    IF parts = <<>> THEN <<>>
    ELSE IF Len(parts) = 1 THEN parts[1]
    ELSE parts[1] \o <<sep>> \o JoinWith(Tail(parts), sep)

RECURSIVE ParseCookieList(_, _)
\* dynamic-apis.js:86-91: the forEach over the split header, filling `cookies`
ParseCookieList(items, jar) ==
    IF items = <<>> THEN jar
    ELSE LET parts == SplitOn(Trim(Head(items)), "=")
             name == parts[1]
         IN ParseCookieList(Tail(items),
                            IF name # <<>> THEN MapSet(jar, name, JoinWith(Tail(parts), "="))
                            ELSE jar)

\* dynamic-apis.js:83-91: req.headers.cookie || '' parsed into name -> value
ParseCookies(req) ==
    ParseCookieList(SplitOn(IF req.hasCookie THEN req.cookie ELSE <<>>, ";"), EmptyMap)

ApiError(api) == [api |-> api, kind |-> "throw", error |-> "must be called within a render context",
                  store |-> 0, jar |-> EmptyMap, list |-> <<>>]

\* build.js:123, 133 and :193, 59: createPrerenderStore() and renderStorage.run(store, ...)
runPrerender ==
    /\ Len(stores) < MaxRuns
    /\ stores' = Append(stores, createPrerenderStore)
    /\ tasks' = Append(tasks, Task(Len(stores) + 1))
    /\ lastOp' = Op("runPrerender", Len(tasks) + 1)
    /\ UNCHANGED <<coordVars, cacheVars, sigVars, loopVars, waiters, calls, readsBegun, resets>>

\* server.js:118, 122 and :162, 165: createRequestStore(req) and renderStorage.run(store, ...)
runRequest(req) ==
    /\ Len(stores) < MaxRuns
    /\ stores' = Append(stores, createRequestStore(req))
    /\ tasks' = Append(tasks, Task(Len(stores) + 1))
    /\ lastOp' = Op("runRequest", Len(tasks) + 1)
    /\ UNCHANGED <<coordVars, cacheVars, sigVars, loopVars, waiters, calls, readsBegun, resets>>

RECURSIVE AccessesIn(_)
AccessesIn(ss) ==
    IF ss = <<>> THEN 0
    ELSE (IF Head(ss).type = "prerender" THEN Len(Head(ss).dynamicAccesses) ELSE 0)
         + AccessesIn(Tail(ss))

\* bound of the model: the accesses recorded in all stores together
CanTrack(t) ==
    StoreType(renderStorageGetStore(t)) = "prerender" => AccessesIn(stores) < MaxAccesses

\* async-storage.js:94-106
trackDynamicAccess(t, expression) ==
    /\ t \in DOMAIN tasks
    /\ CanTrack(t)
    /\ stores' = StoresAfterTrack(t, expression)
    /\ lastOp' = [Op("trackDynamicAccess", t) EXCEPT !.expr = expression]
    /\ UNCHANGED <<coordVars, tasks, cacheVars, sigVars, loopVars, waiters, calls, readsBegun, resets>>

\* async-storage.js:69-78
getStore(t) ==
    LET s == renderStorageGetStore(t) IN
    /\ t \in DOMAIN tasks
    /\ lastOp' = [Op("getStore()", t) EXCEPT !.out =
                   IF ContextMissing(s)
                   THEN [ApiError("getStore()") EXCEPT !.error = "was called outside of a render context"]
                   ELSE [NoOutcome EXCEPT !.api = "getStore()", !.kind = "return", !.store = s]]
    /\ UNCHANGED <<coordVars, stores, tasks, cacheVars, sigVars, loopVars, waiters, calls, readsBegun, resets>>

\* async-storage.js:111-114: store?.type === 'prerender' && store.accessedDynamicData
hasAccessedDynamicData(t) ==
    /\ StoreType(renderStorageGetStore(t)) = "prerender"
    /\ stores[renderStorageGetStore(t)].accessedDynamicData

DynamicAccessesOfFirstStore(t) ==
    IF stores # <<>> /\ stores[1].type = "prerender" THEN stores[1].dynamicAccesses ELSE <<>>

\* async-storage.js:119-122: store?.type === 'prerender' ? store.dynamicAccesses : []
DynamicAccessesOf(t) ==
    IF StoreType(renderStorageGetStore(t)) = "prerender"
    THEN stores[renderStorageGetStore(t)].dynamicAccesses
    ELSE <<>>

\* async-storage.js:119-122
getDynamicAccesses(t) ==
    /\ t \in DOMAIN tasks
    /\ lastOp' = [Op("getDynamicAccesses", t) EXCEPT !.out =
                   [NoOutcome EXCEPT !.api = "getDynamicAccesses()", !.kind = "return",
                                     !.store = renderStorageGetStore(t),
                                     !.list = DynamicAccessesOf(t)]]
    /\ UNCHANGED <<coordVars, stores, tasks, cacheVars, sigVars, loopVars, waiters, calls, readsBegun, resets>>

\* dynamic-apis.js:66-102 cookies, :107-131 headers, :136-151 getCurrentTime,
\* :156-169 connection.  Under a prerender store the accessor records the access and
\* postpone() throws (dynamic-apis.js:47-53); under a request store cookies() gives
\* the parsed cookies, headers() and getCurrentTime() a value read at the request,
\* connection() undefined.
AccessorReturnsUnderPrerender(t, api) ==
    IF ContextMissing(renderStorageGetStore(t)) THEN "throw" ELSE "return"

\* How a call of a dynamic accessor in context t ends for its caller
\* (dynamic-apis.js:69-78, 110-116, 139-145, 159-166 with postpone :47-53): it throws
\* outside a render context, postpone() throws under a prerender store after the access
\* was recorded, and a value is returned under a request store.  The accessors are
\* async functions: what they throw rejects the promise the caller awaits.
AccessorKind(t, api) ==
    IF ContextMissing(renderStorageGetStore(t)) THEN "throw"
    ELSE IF StoreType(renderStorageGetStore(t)) = "prerender" THEN "postpone"
    ELSE "return"

\* What the call gave its caller
AccessorOutcome(t, api) ==
    LET s == renderStorageGetStore(t) IN
    IF AccessorKind(t, api) = "throw" THEN ApiError(api)
    ELSE IF AccessorKind(t, api) = "postpone"
    THEN [NoOutcome EXCEPT !.api = api, !.kind = "postpone", !.store = s]
    ELSE [NoOutcome EXCEPT
            !.api = api, !.kind = "return", !.store = s,
            !.jar = IF api = "cookies()" /\ StoreType(s) = "request"
                    THEN ParseCookies(stores[s].request) ELSE EmptyMap]

\* The stores after the call: the access is recorded under a prerender store only
\* (dynamic-apis.js:75, 113, 142, 162)
StoresAfterAccessor(t, api) ==
    IF ~ContextMissing(renderStorageGetStore(t))
       /\ StoreType(renderStorageGetStore(t)) = "prerender"
    THEN StoresAfterTrack(t, api)
    ELSE stores

accessor(t, api) ==
    /\ t \in DOMAIN tasks
    /\ CanTrack(t)
    /\ stores' = StoresAfterAccessor(t, api)
    /\ lastOp' = [Op("accessor", t) EXCEPT !.expr = api, !.out = AccessorOutcome(t, api)]
    /\ UNCHANGED <<coordVars, tasks, cacheVars, sigVars, loopVars, waiters, calls, readsBegun, resets>>

\* A call of an accessor made by the render's own function, not by UserGreeting
accessorByRender(t, api) ==
    /\ t \in DOMAIN tasks
    /\ tasks[t].at = "none"
    /\ accessor(t, api)

\* part_001:43-81 UserGreeting: the engine calls the component in the context of the
\* render of store s (the page holds one UserGreeting: once for each render).
startUserGreeting(s) ==
    /\ s \in DOMAIN stores
    /\ Len(tasks) < MaxTasks
    /\ \A t \in DOMAIN tasks : tasks[t].scope = s => tasks[t].at = "none"
    /\ tasks' = Append(tasks, [Task(s) EXCEPT !.at = "cookies()"])
    /\ lastOp' = Op("startUserGreeting", Len(tasks) + 1)
    /\ UNCHANGED <<coordVars, stores, cacheVars, sigVars, loopVars, waiters, calls, readsBegun,
                   resets>>

\* part_001:46-52: `await cookies()`, then `await getCurrentTime()`, then the element
\* is returned.  An accessor that throws or postpones rejects the awaited promise, the
\* await rethrows and the component's function ends there, its own promise rejected.
UserGreetingAfter(at, kind) ==
    IF kind # "return" THEN "rejected"
    ELSE IF at = "cookies()" THEN "getCurrentTime()"
    ELSE "returned"

\* One step of UserGreeting in context t: the accessor call it stands at.
userGreetingStep(t) ==
    /\ t \in DOMAIN tasks
    /\ tasks[t].at \in {"cookies()", "getCurrentTime()"}
    /\ CanTrack(t)
    /\ stores' = StoresAfterAccessor(t, tasks[t].at)
    /\ tasks' = [tasks EXCEPT ![t].at = UserGreetingAfter(@, AccessorKind(t, tasks[t].at))]
    /\ lastOp' = [Op("userGreetingStep", t) EXCEPT !.expr = tasks[t].at,
                                                   !.out = AccessorOutcome(t, tasks[t].at)]
    /\ UNCHANGED <<coordVars, cacheVars, sigVars, loopVars, waiters, calls, readsBegun, resets>>

(***************************************************************************)
(* The build coordinator of build.js.                                      *)
(***************************************************************************)
\* ./dist before any build has written to it
\* "files" are the names of the files that exist in ./dist.
NoMetadata == [hasDynamicContent |-> FALSE, hasPostponedState |-> FALSE, dynamicAccesses |-> <<>>]
NoDist == [shell |-> "absent", metadata |-> NoMetadata, postponed |-> "absent", files |-> {}]
NoCacheFile == [exists |-> FALSE, data |-> EmptyMap]

\* What the rendering engine hands back: the prelude's markup and result.postponed,
\* which is null when the render left nothing deferred.
Shells == {"shellA", "shellB"}
PostponedNull == "null"
PostponedStates == {PostponedNull, "postponedState"}

\* How an awaited prerender ends: with its result, with the error the coordinator's
\* own abort causes, or with an error of the render itself.
RenderOutcomes == {"result", "abort error", "render error"}

Render(store, task) ==
    [store |-> store, task |-> task, aborted |-> FALSE, outcome |-> "pending",
     postponed |-> PostponedNull]

prospectiveStoreOf(rs) == rs[1].store

\* build.js:193, 220: the store the final pass ran under
finalStoreOf(rs) == rs[2].store

RECURSIVE ExpressionsOf(_)
\* build.js:248  dynamicAccesses.map(a => a.expression)
ExpressionsOf(accesses) ==
    IF accesses = <<>> THEN <<>>
    ELSE <<Head(accesses).expression>> \o ExpressionsOf(Tail(accesses))

\* build.js:222
HasPostponedState(postponed) == postponed # PostponedNull

\* build.js:220-222, 245-250 (buildTime, the clock's reading, is left out)
Metadata(store, postponed) ==
    [hasDynamicContent |-> Len(store.dynamicAccesses) > 0,
     hasPostponedState |-> HasPostponedState(postponed),
     dynamicAccesses |-> ExpressionsOf(store.dynamicAccesses)]

\* build.js:242-257: shell.html, metadata.json and, when there is a postponed state,
\* postponed.json
WriteArtifacts(d, store, html, postponed) ==
    LET m == Metadata(store, postponed) IN
    [shell |-> html,
     metadata |-> m,
     postponed |-> IF m.hasPostponedState THEN postponed ELSE d.postponed,
     files |-> d.files \cup {"shell.html", "metadata.json"}
                  \cup (IF m.hasPostponedState THEN {"postponed.json"} ELSE {})]

\* The build process has not ended.
Alive == exitCode = "running"

\* build.js:97-149: clearCache(), setRenderPhase('prospective'), the prospective store,
\* the prospective prerender started inside renderStorage.run, and cacheReady() called;
\* build() then awaits the waiter.
buildStart ==
    /\ buildPc = "start"
    /\ cacheStore' = EmptyMap
    /\ writer' = EmptyMap
    /\ sinceClear' = {}
    /\ currentPhase' = "prospective"
    /\ stores' = Append(stores, createPrerenderStore)
    /\ tasks' = Append(tasks, Task(Len(stores) + 1))
    /\ renders' = <<Render(Len(stores) + 1, Len(tasks) + 1)>>
    /\ waiters' = Append(waiters, [status |-> "pending", pass |-> resets,
                                  busy |-> pendingCacheReads > 0,
                                  regAt |-> readsBegun,
                                  fresh |-> ~hasStartedReading])
    /\ cacheReadyResolvers' = Append(cacheReadyResolvers, Len(waiters) + 1)
    /\ immediates' =
         IF ReadySchedules(pendingCacheReads)
         THEN scheduleAfterEventLoop(immediates, Check(readsBegun, resets, "cacheReady"))
         ELSE immediates
    /\ buildPc' = "awaitCacheReady"
    /\ lastOp' = Op("buildStart", 0)
    /\ UNCHANGED <<pendingCacheReads, hasStartedReading, startReadingResolver, timers, calls,
                   readsBegun, resets, cacheFile, exitCode, dist, raised, serverVars>>

CachesFilledAtOnce(waiter) == TRUE

\* build.js:149  await cacheReady(): build() goes on when the waiter has resolved
CachesFilled(waiter) == waiter.status = "resolved"

\* build.js:149-158: the waiter of cacheReady() resolved; build() aborts the prospective
\* render and awaits its promise.
abortProspective ==
    /\ buildPc = "awaitCacheReady"
    /\ CachesFilled(waiters[1])
    /\ renders' = [renders EXCEPT ![1].aborted = TRUE]
    /\ buildPc' = "awaitProspective"
    /\ lastOp' = Op("abortProspective", 0)
    /\ UNCHANGED <<cacheVars, sigVars, loopVars, waiters, calls, ctxVars, readsBegun, resets,
                   currentPhase, cacheFile, exitCode, dist, raised, serverVars>>

\* build.js:157-164: the catch block around the prospective result has no condition
\* and no exit; whatever the awaited promise or the drain of its prelude threw is dropped.
ProspectiveFailureFatal(outcome) == FALSE

\* build.js:200-208: the catch block around performPrerender exits with code 1 for
\* whatever was thrown.
FinalFailureFatal(outcome) == outcome # "result"

StoresWithFinalStoreCarried(ss) == Append(ss, ss[Len(ss)])

\* build.js:193  const finalStore = createPrerenderStore(): a new store object, beside
\* the prospective one
StoresWithFinalStore(ss) == Append(ss, createPrerenderStore)

\* build.js:156-208 with performPrerender :53-73: the prospective promise settled and
\* its prelude was drained, or the error was caught; then saveCache(), resetCacheSignal(),
\* setRenderPhase('final'), the final store, and the final prerender started inside
\* renderStorage.run; performPrerender awaits its grace timer.
prospectiveSettles(outcome) ==
    /\ buildPc = "awaitProspective"
    /\ raised' = IF outcome = "result" THEN raised
                 ELSE raised \cup {[pass |-> "prospective", error |-> outcome]}
    /\ IF ProspectiveFailureFatal(outcome)
       THEN /\ exitCode' = "1"
            /\ buildPc' = "exited"
            /\ renders' = [renders EXCEPT ![1].outcome = outcome]
            /\ UNCHANGED <<cacheFile, sigVars, resets, currentPhase, ctxVars>>
       ELSE /\ cacheFile' = SerializeCache(cacheStore)
            /\ pendingCacheReads' = 0
            /\ cacheReadyResolvers' = ResetResolvers(cacheReadyResolvers)
            /\ hasStartedReading' = FALSE
            /\ startReadingResolver' = "null"
            /\ resets' = resets + 1
            /\ currentPhase' = "final"
            /\ stores' = StoresWithFinalStore(stores)
            /\ tasks' = Append(tasks, Task(Len(stores) + 1))
            /\ renders' = Append([renders EXCEPT ![1].outcome = outcome],
                                 Render(Len(stores) + 1, Len(tasks) + 1))
            /\ buildPc' = "finalGrace"
            /\ UNCHANGED exitCode
    /\ lastOp' = Op("prospectiveSettles", 0)
    /\ UNCHANGED <<cacheVars, loopVars, waiters, calls, readsBegun, dist, serverVars>>

\* build.js:73-78: the grace timer of performPrerender fired; the final render is
\* aborted and its promise awaited.
abortFinal ==
    /\ buildPc = "finalGrace"
    /\ renders' = [renders EXCEPT ![2].aborted = TRUE]
    /\ buildPc' = "awaitFinal"
    /\ lastOp' = Op("abortFinal", 0)
    /\ UNCHANGED <<cacheVars, sigVars, loopVars, waiters, calls, ctxVars, readsBegun, resets,
                   currentPhase, cacheFile, exitCode, dist, raised, serverVars>>

\* build.js:78-91 and :199-289: the final promise settled.  With a result, the prelude
\* is read, the final store analysed and the artifacts written; build() returns and the
\* process ends with code 0.  With an error, build() calls process.exit(1).
finalSettles(outcome, html, postponed) ==
    /\ buildPc = "awaitFinal"
    /\ raised' = IF outcome = "result" THEN raised
                 ELSE raised \cup {[pass |-> "final", error |-> outcome]}
    /\ IF FinalFailureFatal(outcome)
       THEN /\ exitCode' = "1"
            /\ buildPc' = "exited"
            /\ renders' = [renders EXCEPT ![2].outcome = outcome]
            /\ dist' = dist
       ELSE /\ exitCode' = "0"
            /\ buildPc' = "done"
            /\ renders' = [renders EXCEPT ![2].outcome = outcome, ![2].postponed = postponed]
            /\ dist' = WriteArtifacts(dist, stores[finalStoreOf(renders)], html, postponed)
    /\ lastOp' = Op("finalSettles", 0)
    /\ UNCHANGED <<cacheVars, sigVars, loopVars, waiters, calls, ctxVars, readsBegun, resets,
                   currentPhase, cacheFile, serverVars>>

(***************************************************************************)
(* The request handler of server.js.                                       *)
(***************************************************************************)
\* server.js:61  existsSync('./dist/metadata.json')
HasMetadata(d) == "metadata.json" \in d.files

\* server.js:59-71: postponedState stays null unless the metadata says there is one
\* and the file exists
LoadPostponedState(d) ==
    IF HasMetadata(d) /\ d.metadata.hasPostponedState /\ "postponed.json" \in d.files
    THEN d.postponed ELSE PostponedNull

TakesStaticPathUnlessPostponed(d) == HasMetadata(d) /\ ~d.metadata.hasPostponedState

\* server.js:82  metadata && !metadata.hasDynamicContent
TakesStaticPath(d) == HasMetadata(d) /\ ~d.metadata.hasDynamicContent

UsesResumeNever(postponedState) == FALSE

\* server.js:99  else if (postponedState)
UsesResume(postponedState) == postponedState # PostponedNull

\* What the handler did for one request.  engine lists the engine entry points it
\* called, runs counts its renderStorage.run calls, body is what was sent to the client.
Response(req) ==
    [req |-> req, path |-> "none", engine |-> <<>>, postponed |-> PostponedNull,
     store |-> 0, task |-> 0, runs |-> 0, status |-> "none", body |-> <<>>,
     greeting |-> <<>>]

\* The artifacts of a build whose final pass recorded `accesses` dynamic accesses
\* (build.js:220-257), put in ./dist before the server reads them.
deployBuild(accesses, html, postponed) ==
    /\ dist = NoDist
    /\ dist' = WriteArtifacts(dist,
                              IF accesses = 0 THEN createPrerenderStore
                              ELSE Tracked(createPrerenderStore, "cookies()", 0),
                              html, postponed)
    /\ lastOp' = Op("deployBuild", 0)
    /\ UNCHANGED <<cacheVars, sigVars, loopVars, waiters, calls, ctxVars, readsBegun, resets,
                   currentPhase, cacheFile, buildPc, renders, exitCode, raised, serverVars>>

\* server.js:45-123 and :151-166: the handler up to the engine call.  The static path
\* sends shell.html; the other two create the request store, enter renderStorage.run
\* once and call resumeToPipeableStream or renderToPipeableStream.
handleRequest(req) ==
    LET id == Len(responses) + 1
        postponedState == LoadPostponedState(dist)
    IN
    /\ Len(responses) < MaxRequests
    /\ IF TakesStaticPath(dist)
       THEN /\ responses' = Append(responses,
                                  [Response(req) EXCEPT !.path = "static", !.status = "sent",
                                                        !.body = <<dist.shell>>])
            /\ UNCHANGED ctxVars
       ELSE /\ stores' = Append(stores, createRequestStore(req))
            /\ tasks' = Append(tasks, Task(Len(stores) + 1))
            /\ responses' = Append(responses,
                 [Response(req) EXCEPT
                    !.path = IF UsesResume(postponedState) THEN "resume" ELSE "render",
                    !.engine = IF UsesResume(postponedState)
                               THEN <<"resumeToPipeableStream">>
                               ELSE <<"renderToPipeableStream">>,
                    !.postponed = postponedState,
                    !.store = Len(stores) + 1, !.task = Len(tasks) + 1,
                    !.runs = 1, !.status = "rendering"])
    /\ lastOp' = Op("handleRequest", id)
    /\ UNCHANGED <<cacheVars, sigVars, loopVars, waiters, calls, readsBegun, resets, buildVars>>

Username == <<"u", "s", "e", "r", "n", "a", "m", "e">>
Guest == <<"G", "u", "e", "s", "t">>
WelcomeBack == <<"W", "e", "l", "c", "o", "m", "e", " ", "b", "a", "c", "k", ",", " ">>

cookieGetName(jar, name) ==
    IF name \in DOMAIN jar /\ jar[name] # <<>>
    THEN [found |-> TRUE, value |-> name]
    ELSE [found |-> FALSE, value |-> <<>>]

\* dynamic-apis.js:94-97  get(name): cookies[name] ? { name, value: cookies[name] } : undefined
\* (an empty string is falsy)
cookieGet(jar, name) ==
    IF name \in DOMAIN jar /\ jar[name] # <<>>
    THEN [found |-> TRUE, value |-> jar[name]]
    ELSE [found |-> FALSE, value |-> <<>>]

\* part_001:47  cookieStore.get('username')?.value || 'Guest'
UsernameOf(jar) ==
    LET c == cookieGet(jar, Username)
    IN IF c.found /\ c.value # <<>> THEN c.value ELSE Guest

\* part_001:64  `Welcome back, ${username}!`
Greeting(username) == WelcomeBack \o username \o <<"!">>

\* The response the engine is still producing.
Rendering(i) == i \in DOMAIN responses /\ responses[i].status \in {"rendering", "streaming"}

\* part_001:43-81 UserGreeting rendered by the engine for request i: cookies() under
\* the request store of the context it runs in, then the greeting element.
renderUserGreeting(i) ==
    /\ Rendering(i)
    /\ responses[i].greeting = <<>>
    /\ LET s == renderStorageGetStore(responses[i].task) IN
       /\ ~ContextMissing(s)
       /\ StoreType(s) = "request"
       /\ responses' = [responses EXCEPT
                          ![i].greeting = Greeting(UsernameOf(ParseCookies(stores[s].request)))]
    /\ lastOp' = Op("renderUserGreeting", i)
    /\ UNCHANGED <<cacheVars, sigVars, loopVars, waiters, calls, ctxVars, readsBegun, resets,
                   buildVars>>

\* server.js:127-130 and :169-172: onShellReady pipes the stream into the response.
onShellReady(i) ==
    /\ i \in DOMAIN responses
    /\ responses[i].status = "rendering"
    /\ responses' = [responses EXCEPT ![i].status = "streaming",
                                      ![i].body = Append(@, "stream")]
    /\ lastOp' = Op("onShellReady", i)
    /\ UNCHANGED <<cacheVars, sigVars, loopVars, waiters, calls, ctxVars, readsBegun, resets,
                   buildVars>>

\* server.js:131-138 and :173-177: onAllReady resolves the promise the handler awaits.
onAllReady(i) ==
    /\ i \in DOMAIN responses
    /\ responses[i].status = "streaming"
    /\ responses' = [responses EXCEPT ![i].status = "complete"]
    /\ lastOp' = Op("onAllReady", i)
    /\ UNCHANGED <<cacheVars, sigVars, loopVars, waiters, calls, ctxVars, readsBegun, resets,
                   buildVars>>

\* server.js:143-145 and :182-184: onError logs.
onError(i) ==
    /\ Rendering(i)
    /\ lastOp' = Op("onError", i)
    /\ UNCHANGED <<cacheVars, sigVars, loopVars, waiters, calls, ctxVars, readsBegun, resets,
                   buildVars, serverVars>>

\* server.js:139-142 and :178-181: onShellError logs and rejects the promise the
\* handler awaits.
onShellErrorSettles(promise) == "rejected"

\* server.js:45, :121, :164: the handler is an async function that awaits the promise
\* without a try/catch, and the app registers no error middleware, so the handler writes
\* neither status nor body when the promise rejects.  What the client gets is the
\* router's treatment of a rejected handler promise: it is passed to the default error
\* handler, which answers with an error response, or it is left unhandled and the
\* request gets no response.
RouterOutcomes == {"error handler", "unhandled"}

handlerRejected(response, router) ==
    IF router = "error handler"
    THEN [response EXCEPT !.status = "error", !.body = <<"error response">>]
    ELSE [response EXCEPT !.status = "abandoned"]

\* server.js:121-149 and :164-188: the engine reports that the shell failed.
onShellError(i, router) ==
    /\ i \in DOMAIN responses
    /\ responses[i].status = "rendering"
    /\ responses' = [responses EXCEPT ![i] =
                       IF onShellErrorSettles("pending") = "rejected"
                       THEN handlerRejected(responses[i], router)
                       ELSE responses[i]]
    /\ lastOp' = Op("onShellError", i)
    /\ UNCHANGED <<cacheVars, sigVars, loopVars, waiters, calls, ctxVars, readsBegun, resets,
                   buildVars>>

(***************************************************************************)
(* Specifications.                                                         *)
(***************************************************************************)
HasStartedReadingLeftOver == TRUE

\* dynamic-apis.js:294  let hasStartedReading = false
HasStartedReadingAtLoad == FALSE

\* The module-level values when the process has loaded its modules
\* (dynamic-apis.js:202, 208, 292-295) and before build.js:291 or server.js runs.
Init ==
    /\ cacheStore = EmptyMap
    /\ pendingCacheReads = 0
    /\ cacheReadyResolvers = <<>>
    /\ hasStartedReading = HasStartedReadingAtLoad
    /\ startReadingResolver = "null"
    /\ immediates = <<>>
    /\ timers = <<>>
    /\ waiters = <<>>
    /\ calls = <<>>
    /\ stores = <<>>
    /\ tasks = <<MainTask>>
    /\ writer = EmptyMap
    /\ sinceClear = {}
    /\ readsBegun = 0
    /\ resets = 0
    /\ lastOp = Op("init", 0)
    /\ currentPhase = "none"
    /\ cacheFile = NoCacheFile
    /\ buildPc = "start"
    /\ renders = <<>>
    /\ exitCode = "running"
    /\ dist = NoDist
    /\ raised = {}
    /\ responses = <<>>

SigName == <<"f">>
ComponentName == <<"a">>

\* The cache signal driven by memoized calls of one key.
SignalNext ==
    \/ \E outcome \in {"suspends", "e1"} : cachedFunction("cached", SigName, <<>>, outcome)
    \/ \E c \in 1..MaxCalls : producerResolved(c, "v1")
    \/ \E c \in 1..MaxCalls : producerRejected(c, "e1")
    \/ cacheReady
    \/ runImmediate
    \/ noMorePendingCachesCheck
    \/ resetCacheSignal

Spec == Init /\ [][SignalNext]_vars

\* One pass of the cache signal: no resetCacheSignal.  The event loop runs every
\* queued callback, and a producer that was invoked settles.
PassNext ==
    \/ \E outcome \in {"suspends", "e1"} : cachedFunction("cached", SigName, <<>>, outcome)
    \/ \E c \in 1..MaxCalls : producerResolved(c, "v1")
    \/ \E c \in 1..MaxCalls : producerRejected(c, "e1")
    \/ cacheReady
    \/ runImmediate
    \/ noMorePendingCachesCheck

ProducerSettles ==
    \E c \in 1..MaxCalls : producerResolved(c, "v1") \/ producerRejected(c, "e1")

PassSpec ==
    /\ Init
    /\ [][PassNext]_vars
    /\ WF_vars(runImmediate)
    /\ WF_vars(noMorePendingCachesCheck)
    /\ WF_vars(ProducerSettles)

\* The cache store under memoized calls of both wrappers with several names and
\* inputs.  The debounce checks that endCacheRead queues touch neither the store
\* nor the calls nor the count; they stay queued here.
CacheNext ==
    \/ \E n \in Names, a \in ArgLists, outcome \in {"suspends"} \cup Errors :
          cachedFunction("cached", n, a, outcome)
    \/ \E p \in PropsSet, outcome \in {"suspends"} \cup Errors :
          cachedFunction("component", ComponentName, p, outcome)
    \/ \E c \in 1..MaxCalls, v \in Values : producerResolved(c, v)
    \/ \E c \in 1..MaxCalls, e \in Errors : producerRejected(c, e)
    \/ clearCache

CacheSpec == Init /\ [][CacheNext]_vars

\* Hits of both wrappers while the cache signal is in use: a waiter may be pending
\* and debounce checks queued when the hit happens.
HitNext ==
    \/ cachedFunction("cached", SigName, <<>>, "suspends")
    \/ cachedFunction("component", ComponentName, <<>>, "suspends")
    \/ \E c \in 1..MaxCalls : producerResolved(c, "v1")
    \/ cacheReady
    \/ runImmediate
    \/ noMorePendingCachesCheck

HitSpec == Init /\ [][HitNext]_vars

\* Both wrappers created under the same logical names and called with the same
\* props object: cached(name, fn)(props) and cachedComponent(name, Component)(props).
\* One of the names starts with the text cachedComponent puts in front of its keys.
WrapperNames == {<<"f">>, <<"c", "o", "m", "p", "o", "n", "e", "n", "t", ":", "f">>}

WrapperNext ==
    \/ \E n \in WrapperNames, p \in PropsSet, outcome \in {"suspends", "e1"} :
          cachedFunction("cached", n, <<Obj(p)>>, outcome)
    \/ \E n \in WrapperNames, p \in PropsSet, outcome \in {"suspends", "e1"} :
          cachedFunction("component", n, p, outcome)
    \/ \E c \in 1..MaxCalls, v \in Values : producerResolved(c, v)
    \/ \E c \in 1..MaxCalls : producerRejected(c, "e1")

WrapperSpec == Init /\ [][WrapperNext]_vars

\* Memoized calls of both wrappers in every render phase.
PhaseNext ==
    \/ \E phase \in {"prospective", "final", "none"} : setRenderPhase(phase)
    \/ \E outcome \in {"suspends", "e1"} : cachedFunction("cached", SigName, <<>>, outcome)
    \/ \E outcome \in {"suspends", "e1"} :
          cachedFunction("component", ComponentName, <<>>, outcome)
    \/ \E c \in 1..MaxCalls : producerResolved(c, "v1")
    \/ \E c \in 1..MaxCalls : producerRejected(c, "e1")

PhaseSpec == Init /\ [][PhaseNext]_vars

\* What build() runs between its two passes (build.js:166-193), in any order and at
\* any moment, around calls of a memoized component that fill the store with data,
\* undefined and React elements.
BoundaryNext ==
    \/ cachedFunction("component", ComponentName, <<>>, "suspends")
    \/ \E c \in 1..MaxCalls, v \in PersistValues : producerResolved(c, v)
    \/ saveCache
    \/ getCacheStats
    \/ resetCacheSignal
    \/ \E phase \in {"prospective", "final"} : setRenderPhase(phase)

BoundarySpec == Init /\ [][BoundaryNext]_vars

\* The module's one cache used from several render contexts: the build's prerender
\* runs, the server's request runs (server.js:162-188 renders App under a request
\* store) and the top-level code.
SharedCacheNext ==
    \/ runPrerender
    \/ \E req \in {[hasCookie |-> TRUE, cookie |-> CookieAlice],
                    [hasCookie |-> TRUE, cookie |-> CookieTwo]} : runRequest(req)
    \/ \E t \in 1..(MaxRuns + 1) : cachedFunctionIn(t, "cached", SigName, <<>>, "suspends")
    \/ \E t \in 1..(MaxRuns + 1) :
          cachedFunctionIn(t, "component", ComponentName, <<>>, "suspends")
    \/ \E c \in 1..MaxCalls, v \in Values : producerResolved(c, v)

SharedCacheSpec == Init /\ [][SharedCacheNext]_vars

\* Everything that touches the cache or the cache signal's state: memoized calls of
\* one key (with their beginCacheRead and endCacheRead), the cache file's
\* operations, cacheReady and resetCacheSignal.  The debounce checks stay queued.
LifetimeNext ==
    \/ \E outcome \in {"suspends", "e1"} : cachedFunction("cached", SigName, <<>>, outcome)
    \/ \E c \in 1..MaxCalls : producerResolved(c, "v1")
    \/ \E c \in 1..MaxCalls : producerRejected(c, "e1")
    \/ clearCache
    \/ saveCache
    \/ loadCache
    \/ cacheReady
    \/ resetCacheSignal

LifetimeSpec == Init /\ [][LifetimeNext]_vars

\* The cache store and its file: memoized calls of both wrappers fill the store
\* with data, undefined and React elements, and clearCache, saveCache and loadCache
\* run in any order.
PersistNext ==
    \/ cachedFunction("cached", SigName, <<>>, "suspends")
    \/ cachedFunction("component", ComponentName, <<>>, "suspends")
    \/ \E c \in 1..MaxCalls, v \in PersistValues : producerResolved(c, v)
    \/ clearCache
    \/ saveCache
    \/ loadCache

PersistSpec == Init /\ [][PersistNext]_vars

\* Several callers wait on cacheReady() at once, over passes separated by
\* resetCacheSignal().
WaitersNext ==
    \/ cachedFunction("cached", SigName, <<>>, "suspends")
    \/ \E c \in 1..MaxCalls : producerResolved(c, "v1")
    \/ cacheReadyWithin(MaxTogether)
    \/ runImmediate
    \/ noMorePendingCachesCheck
    \/ resetCacheSignal

WaitersSpec == Init /\ [][WaitersNext]_vars

\* The keys of the memoized calls issued while the phase was `phase`.
KeysCalledIn(phase) == {calls[c].key : c \in {d \in DOMAIN calls : calls[d].phase = phase}}

\* A memoized call issued by a render of build().  Both passes render the same tree
\* (build.js:61 and :135, React.createElement(App)), so the final pass issues the calls
\* the prospective pass issued.
renderCalls(kind, name, input, outcome) ==
    /\ Alive
    /\ renders # <<>>
    /\ currentPhase = "final" => KeyOf(kind, name, input) \in KeysCalledIn("prospective")
    /\ cachedFunction(kind, name, input, outcome)

\* A dynamic accessor called by a component of one of the renders of build().
renderAccess(r, api) ==
    /\ Alive
    /\ r \in DOMAIN renders
    /\ accessor(renders[r].task, api)

buildProducerResolved(c) == Alive /\ producerResolved(c, "v1")
buildProducerRejected(c) == Alive /\ producerRejected(c, "e1")
buildRunImmediate == Alive /\ runImmediate
buildCheck == Alive /\ noMorePendingCachesCheck
buildProducerSettles == \E c \in 1..MaxCalls : buildProducerResolved(c) \/ buildProducerRejected(c)

\* One run of build.js with the renders, the producers and the event loop around it.
BuildNext ==
    \/ buildStart
    \/ abortProspective
    \/ \E o \in RenderOutcomes : prospectiveSettles(o)
    \/ abortFinal
    \/ \E o \in RenderOutcomes, h \in Shells, p \in PostponedStates : finalSettles(o, h, p)
    \/ \E outcome \in {"suspends", "e1"} : renderCalls("component", ComponentName, <<>>, outcome)
    \/ \E r \in 1..2 : renderAccess(r, "cookies()")
    \/ \E c \in 1..MaxCalls : buildProducerResolved(c)
    \/ \E c \in 1..MaxCalls : buildProducerRejected(c)
    \/ buildRunImmediate
    \/ buildCheck

\* The event loop runs every queued callback and timer, a producer that was invoked
\* settles, and a prerender that was aborted settles.
BuildSpec ==
    /\ Init
    /\ [][BuildNext]_vars
    /\ WF_vars(buildRunImmediate)
    /\ WF_vars(buildCheck)
    /\ WF_vars(buildProducerSettles)
    /\ WF_vars(abortProspective)
    /\ WF_vars(\E o \in RenderOutcomes : prospectiveSettles(o))
    /\ WF_vars(abortFinal)
    /\ WF_vars(\E o \in RenderOutcomes, h \in Shells, p \in PostponedStates : finalSettles(o, h, p))

\* The server: the artifacts of a build are put in ./dist, requests arrive, and the
\* engine reports its milestones for each request it renders.
ServerNext ==
    \/ \E n \in 0..1, h \in Shells, p \in PostponedStates : deployBuild(n, h, p)
    \/ \E req \in Requests : handleRequest(req)
    \/ \E i \in 1..MaxRequests : renderUserGreeting(i)
    \/ \E i \in 1..MaxRequests : onShellReady(i)
    \/ \E i \in 1..MaxRequests : onAllReady(i)
    \/ \E i \in 1..MaxRequests, router \in RouterOutcomes : onShellError(i, router)
    \/ \E i \in 1..MaxRequests : onError(i)

ServerSpec == Init /\ [][ServerNext]_vars

\* Render contexts: the build's prerender runs, the server's request runs and the
\* top-level code, each calling the accessors in any order.
ContextNext ==
    \/ runPrerender
    \/ \E req \in Requests : runRequest(req)
    \/ \E t \in 1..(MaxRuns + 1), e \in Expressions : trackDynamicAccess(t, e)
    \/ \E t \in 1..(MaxRuns + 1) : getStore(t)
    \/ \E t \in 1..(MaxRuns + 1) : getDynamicAccesses(t)
    \/ \E t \in 1..(MaxRuns + 1), api \in Apis : accessor(t, api)

ContextSpec == Init /\ [][ContextNext]_vars

\* Components rendered under the build's prerender stores and the server's request
\* stores: UserGreeting with its calls of cookies() and getCurrentTime(), and calls of
\* the other two accessors made by the render's own function.
ComponentNext ==
    \/ runPrerender
    \/ \E req \in {[hasCookie |-> TRUE, cookie |-> CookieAlice]} : runRequest(req)
    \/ \E s \in 1..MaxRuns : startUserGreeting(s)
    \/ \E t \in 1..MaxTasks : userGreetingStep(t)
    \/ \E t \in 1..MaxTasks, api \in {"headers()", "connection()"} : accessorByRender(t, api)

ComponentSpec == Init /\ [][ComponentNext]_vars

(***************************************************************************)
(* Claims about the cache signal.                                          *)
(***************************************************************************)
Resolves(w) == waiters[w].status = "pending" /\ waiters'[w].status = "resolved"

\* C1: a waiter of cacheReady() is resolved only in a step at which
\* pendingCacheReads is 0 (before and after the step).
C1_ReadyResolvesOnlyAtZero ==
    [][(\E w \in DOMAIN waiters : Resolves(w))
         => (pendingCacheReads = 0 /\ pendingCacheReads' = 0)]_vars

\* C1 witness: reads were begun, a check ran with the count at 0 and a waiter is resolved.
C1_Witness ==
    /\ lastOp.op = "check"
    /\ readsBegun > 0
    /\ pendingCacheReads = 0
    /\ \E w \in DOMAIN waiters : waiters[w].status = "resolved"

\* C2: when a read begins while a waiter is pending, the waiter is not resolved by a
\* debounce check that endCacheRead scheduled at an earlier zero-crossing of the same
\* pass: the check that resolves it was scheduled after the latest beginCacheRead,
\* so a fresh window has elapsed since the new read ended.
C2_ResolvingCheckIsFresh ==
    [][\A w \in DOMAIN waiters :
          (/\ Resolves(w)
           /\ waiters[w].regAt < readsBegun
           /\ lastOp'.op = "check"
           /\ lastOp'.check.by = "endCacheRead"
           /\ lastOp'.check.pass = resets)
            => lastOp'.check.born = readsBegun]_vars

\* C5: a waiter registered before a resetCacheSignal() stays pending in every later step.
C5_AbandonedWaiterStaysPending ==
    [][\A w \in DOMAIN waiters :
          (waiters[w].status = "pending" /\ waiters[w].pass < resets')
            => waiters'[w].status = "pending"]_vars

\* C5 witness: after the reset, a check scheduled before it ran with the count at 0,
\* and the waiter registered before the reset is still pending.
C5_Witness ==
    /\ lastOp.op = "check"
    /\ lastOp.check.pass < resets
    /\ pendingCacheReads = 0
    /\ \E w \in DOMAIN waiters : waiters[w].status = "pending" /\ waiters[w].pass < resets

\* C6: within one pass, every pending waiter of cacheReady() is eventually resolved.
C6_EveryWaiterEventuallyResolved ==
    \A w \in 1..MaxWaiters :
        (w \in DOMAIN waiters /\ waiters[w].status = "pending")
          ~> (w \in DOMAIN waiters /\ waiters[w].status = "resolved")

\* C6 witness: a waiter registered while a read was pending has been resolved by a
\* check, and the read that ended last ended by its producer failing.
C6_Witness ==
    /\ lastOp.op = "check"
    /\ \E w \in DOMAIN waiters : waiters[w].status = "resolved" /\ waiters[w].busy
    /\ Len(calls) = MaxCalls
    /\ calls[Len(calls)].pc = "threw"
    /\ \A c \in DOMAIN calls : calls[c].pc # "awaiting"

(***************************************************************************)
(* Claims about the cache store.                                           *)
(***************************************************************************)
\* C3: a call of a cached(name, fn) wrapper that starts after an earlier call with
\* the same name and the same serialized arguments has stored its result, with no
\* clearCache() in between, does not invoke fn and returns the stored value of
\* such an earlier call.
C3_SecondCallHitsCache ==
    \A c \in DOMAIN calls :
        (calls[c].kind = "cached" /\ calls[c].prior # {})
          => /\ ~calls[c].invoked
             /\ calls[c].pc = "returned"
             /\ calls[c].servedBy \in calls[c].prior
             /\ calls[calls[c].servedBy].invoked
             /\ calls[c].result = calls[calls[c].servedBy].result

\* C3 witness: the second call has other argument values than the first, with the
\* same serialization, and got the first call's value.
C3_Witness ==
    /\ Len(calls) = 2
    /\ calls[1].kind = "cached" /\ calls[2].kind = "cached"
    /\ calls[2].prior = {1}
    /\ calls[1].input # calls[2].input
    /\ calls[2].result = calls[1].result
    /\ calls[2].result \in Values

NumAwaiting == Cardinality({c \in DOMAIN calls : calls[c].pc = "awaiting"})

\* C4: when the producer of cached() or cachedComponent() fails, the step that
\* settles the call stores nothing, hands the producer's error to the caller, and
\* runs endCacheRead once for the call's beginCacheRead; in a pass without reset
\* the count equals the number of calls still awaiting their producer.
C4_FailureStoresNothingAndEndsRead ==
    [][/\ \A c \in DOMAIN calls :
            (calls[c].pc = "awaiting" /\ calls'[c].pc = "threw")
              => /\ cacheStore' = cacheStore
                 /\ calls'[c].thrown = calls'[c].producerError
                 /\ calls'[c].thrown \in Errors
                 /\ pendingCacheReads' = pendingCacheReads - 1
       /\ (Len(calls') > Len(calls) /\ calls'[Len(calls')].pc = "threw")
              => /\ cacheStore' = cacheStore
                 /\ calls'[Len(calls')].thrown = calls'[Len(calls')].producerError
                 /\ calls'[Len(calls')].thrown \in Errors
                 /\ pendingCacheReads' = pendingCacheReads
       /\ resets' = 0 => pendingCacheReads' = NumAwaiting']_vars

\* C4 witness: a cachedComponent call has failed after suspending, its key has no
\* entry and the count is back to 0.
C4_Witness ==
    /\ lastOp.op = "producerRejected"
    /\ calls[lastOp.id].kind = "component"
    /\ calls[lastOp.id].pc = "threw"
    /\ calls[lastOp.id].key \notin DOMAIN cacheStore
    /\ pendingCacheReads = 0

\* C7: keys of cached() wrappers with different names differ, whatever the
\* arguments, and no call is served a value that a wrapper of another name stored.
C7_DifferentNamesNeverCollide ==
    \A c \in DOMAIN calls :
        /\ \A d \in DOMAIN calls :
              (calls[c].kind = "cached" /\ calls[d].kind = "cached"
                 /\ calls[c].name # calls[d].name)
                => calls[c].key # calls[d].key
        /\ (calls[c].kind = "cached" /\ calls[c].servedBy # 0
              /\ calls[calls[c].servedBy].kind = "cached")
             => calls[calls[c].servedBy].name = calls[c].name

\* C7 witness: with the entry of f("g:1") stored, the wrapper named f:g is called
\* with 1 and misses.
C7_Witness ==
    /\ Len(calls) = 2
    /\ calls[1].kind = "cached" /\ calls[2].kind = "cached"
    /\ calls[1].name = <<"f">> /\ calls[1].input = <<Str(<<"g", ":", "1">>)>>
    /\ calls[2].name = <<"f", ":", "g">> /\ calls[2].input = <<Num(<<"1">>)>>
    /\ calls[2].seen = 1
    /\ calls[2].invoked

(***************************************************************************)
(* Claims about the render context.                                        *)
(***************************************************************************)
OtherThanStores == <<coordVars, tasks, cacheVars, sigVars, loopVars, waiters, calls, readsBegun, resets>>

\* C8: trackDynamicAccess(expression) changes no store under a request store (or
\* outside every run); under a prerender store it appends one event with that
\* expression to that store's dynamicAccesses, sets its accessedDynamicData, and
\* changes nothing else.
C8_TrackDynamicAccessEffect ==
    [][lastOp'.op = "trackDynamicAccess" =>
         LET t == lastOp'.id
             s == tasks[t].scope
         IN /\ UNCHANGED OtherThanStores
            /\ DOMAIN stores' = DOMAIN stores
            /\ \A o \in DOMAIN stores : o # s => stores'[o] = stores[o]
            /\ s # 0 =>
                 IF stores[s].type = "prerender"
                 THEN /\ stores'[s].type = "prerender"
                      /\ Len(stores'[s].dynamicAccesses) = Len(stores[s].dynamicAccesses) + 1
                      /\ SubSeq(stores'[s].dynamicAccesses, 1, Len(stores[s].dynamicAccesses))
                           = stores[s].dynamicAccesses
                      /\ stores'[s].dynamicAccesses[Len(stores'[s].dynamicAccesses)].expression
                           = lastOp'.expr
                      /\ stores'[s].accessedDynamicData
                 ELSE stores'[s] = stores[s]]_vars

\* C8 witness: trackDynamicAccess has run under a request store, and a prerender
\* store holds an access recorded by a direct trackDynamicAccess call.
C8_Witness ==
    /\ lastOp.op = "trackDynamicAccess"
    /\ tasks[lastOp.id].scope # 0
    /\ stores[tasks[lastOp.id].scope].type = "request"
    /\ \E s \in DOMAIN stores :
          /\ stores[s].type = "prerender"
          /\ \E i \in DOMAIN stores[s].dynamicAccesses :
                stores[s].dynamicAccesses[i].expression = "custom()"

CtxOps == {"trackDynamicAccess", "getStore()", "accessor"}

\* C9: an operation running inside one renderStorage.run observes its own store and
\* changes no other: every store but the caller's is unchanged, a value returned
\* under a request store is read from the caller's request, and an access recorded
\* under a prerender store is recorded in the caller's store.
C9_ContextIsolation ==
    [][lastOp'.op \in CtxOps =>
         LET t == lastOp'.id
             s == tasks[t].scope
         IN /\ \A o \in DOMAIN stores : o # s => stores'[o] = stores[o]
            /\ (lastOp'.op # "trackDynamicAccess" /\ s # 0) =>
                 /\ lastOp'.out.store = s
                 /\ lastOp'.out.kind = IF stores[s].type = "request" \/ lastOp'.op = "getStore()"
                                         THEN "return" ELSE "postpone"
                 /\ (lastOp'.expr = "cookies()" /\ stores[s].type = "request")
                      => lastOp'.out.jar = ParseCookies(stores[s].request)
            /\ (lastOp'.op = "accessor" /\ s # 0 /\ stores[s].type = "prerender")
                 => Len(stores'[s].dynamicAccesses) = Len(stores[s].dynamicAccesses) + 1]_vars

\* C9 witness: two prerender runs are active; the context of the second run has
\* recorded an access in its store, and after it the context of the first run has
\* just recorded one in its own.
C9_Witness ==
    /\ Len(tasks) = 3
    /\ stores[1].type = "prerender" /\ stores[2].type = "prerender"
    /\ Len(stores[1].dynamicAccesses) = 1
    /\ Len(stores[2].dynamicAccesses) = 1
    /\ stores[1].dynamicAccesses[1].stack = 2
    /\ stores[2].dynamicAccesses[1].stack = 3
    /\ lastOp.op = "accessor" /\ lastOp.id = 2 /\ lastOp.out.store = 1

\* C10: outside every renderStorage.run, getStore() and each dynamic accessor throw
\* the missing-context error, which no call inside a run produces, and the step
\* changes no store.
C10_OutsideContextFails ==
    [][(lastOp'.op \in {"getStore()", "accessor"}) =>
         LET t == lastOp'.id
         IN /\ tasks[t].scope = 0 =>
                 /\ lastOp'.out.kind = "throw"
                 /\ lastOp'.out.error \in {"must be called within a render context",
                                             "was called outside of a render context"}
                 /\ stores' = stores
            /\ tasks[t].scope # 0 => lastOp'.out.kind \in {"return", "postpone"}]_vars

\* C10 witness: connection() was called by the top-level code while a prerender
\* store with a recorded access exists; the call threw.
C10_Witness ==
    /\ lastOp.op = "accessor" /\ lastOp.expr = "connection()"
    /\ tasks[lastOp.id].scope = 0
    /\ lastOp.out.kind = "throw"
    /\ \E s \in DOMAIN stores : stores[s].type = "prerender" /\ stores[s].accessedDynamicData

(***************************************************************************)
(* Claims about hits, the build and the server.                            *)
(***************************************************************************)
\* C11: a call of cached() or cachedComponent() that finds its key in the store
\* returns the stored value, does not invoke the producer, and leaves the completion
\* signal alone: pendingCacheReads, hasStartedReading, the waiter list, the waiters
\* and the queued debounce checks are unchanged by the call.
C11_HitLeavesSignalAlone ==
    [][(Len(calls') = Len(calls) + 1 /\ calls'[Len(calls')].key \in DOMAIN cacheStore) =>
         LET c == calls'[Len(calls')]
         IN /\ ~c.invoked
            /\ c.pc = "returned"
            /\ c.result = cacheStore[c.key]
            /\ UNCHANGED <<sigVars, loopVars, waiters, cacheStore>>]_vars

\* C11 witness: a cachedComponent() call has just hit while a waiter was registered
\* and a debounce check was queued.
C11_Witness ==
    /\ lastOp.op = "cacheHit"
    /\ calls[lastOp.id].kind = "component"
    /\ ~calls[lastOp.id].invoked
    /\ calls[lastOp.id].result = "v1"
    /\ hasStartedReading
    /\ cacheReadyResolvers # <<>>
    /\ immediates \o timers # <<>>

\* C12: in the final pass of build() every memoized call hits the cache: no call
\* issued in the final phase invokes its producer, and pendingCacheReads is 0
\* throughout the final phase.
C12_FinalPassOnlyHits ==
    /\ \A c \in DOMAIN calls : calls[c].phase = "final" => ~calls[c].invoked
    /\ currentPhase = "final" => pendingCacheReads = 0

\* C13: when the build process has ended, it ended with a non-zero exit code if
\* either pass raised an error other than the one the coordinator's own abort
\* causes, and an abort error alone never made it end with a non-zero code.
C13_BuildFailureSemantics ==
    exitCode # "running" =>
        (exitCode # "0" <=> \E e \in raised : e.error = "render error")

\* C14: the metadata build() writes has hasDynamicContent equal to the final store's
\* accessedDynamicData (the final store recorded at least one access), hasPostponedState
\* true exactly when the final pass's postponed state is not null, dynamicAccesses equal
\* to the final store's expressions in recorded order, and postponed.json is written,
\* with that state, exactly when hasPostponedState is true.
C14_MetadataMatchesFinalPass ==
    [][(buildPc' = "done" /\ buildPc # "done") =>
         LET fs == stores[renders[2].store]
             md == dist'.metadata
         IN /\ md.hasDynamicContent = fs.accessedDynamicData
            /\ md.hasDynamicContent = (Len(fs.dynamicAccesses) >= 1)
            /\ md.hasPostponedState = (renders'[2].postponed # PostponedNull)
            /\ md.dynamicAccesses =
                  [i \in DOMAIN fs.dynamicAccesses |-> fs.dynamicAccesses[i].expression]
            /\ ("postponed.json" \in dist'.files) = md.hasPostponedState
            /\ md.hasPostponedState => dist'.postponed = renders'[2].postponed
            /\ {"shell.html", "metadata.json"} \subseteq dist'.files]_vars

\* C14 witness: build() has written its artifacts after a final pass that recorded two
\* accesses and left a postponed state, while the prospective store recorded none.
C14_Witness ==
    /\ buildPc = "done"
    /\ dist.metadata.hasDynamicContent
    /\ dist.metadata.dynamicAccesses = <<"cookies()", "cookies()">>
    /\ dist.metadata.hasPostponedState
    /\ dist.postponed = "postponedState"
    /\ stores[renders[1].store].dynamicAccesses = <<>>

Started(r) == Len(renders) >= r
Aborted(r) == Len(renders) >= r /\ renders[r].aborted

C15_StaticFastPath ==
    [][/\ (Len(responses') = Len(responses) + 1 /\ HasMetadata(dist)
            /\ ~dist.metadata.hasDynamicContent) =>
            LET r == responses'[Len(responses')]
            IN /\ r.body = <<dist.shell>>
               /\ r.status = "sent"
               /\ r.engine = <<>>
               /\ r.runs = 0
               /\ UNCHANGED ctxVars
       /\ \A i \in DOMAIN responses :
             responses[i].path = "static" => responses'[i] = responses[i]]_vars

\* C15 witness: two requests were answered from the shell of a build that recorded no
\* dynamic access but left a postponed state, the second by a request carrying a cookie.
C15_Witness ==
    /\ Len(responses) = 2
    /\ dist.metadata.hasPostponedState /\ "postponed.json" \in dist.files
    /\ \A i \in 1..2 : responses[i].path = "static" /\ responses[i].body = <<"shellB">>
    /\ responses[2].req.hasCookie
    /\ stores = <<>>

\* C16: when the metadata says hasDynamicContent is true, the handler creates exactly
\* one request store, holding that request, enters renderStorage.run once, and calls
\* exactly one engine entry point: resumeToPipeableStream with the loaded postponed
\* state when one was loaded, otherwise renderToPipeableStream; the static path is not
\* taken.
C16_DynamicPath ==
    [][(Len(responses') = Len(responses) + 1 /\ HasMetadata(dist)
          /\ dist.metadata.hasDynamicContent) =>
          LET r == responses'[Len(responses')]
              loaded == dist.metadata.hasPostponedState /\ "postponed.json" \in dist.files
          IN /\ r.path # "static"
             /\ r.body = <<>>
             /\ r.runs = 1
             /\ Len(stores') = Len(stores) + 1
             /\ SubSeq(stores', 1, Len(stores)) = stores
             /\ stores'[Len(stores')] = [type |-> "request", request |-> r.req]
             /\ r.store = Len(stores')
             /\ tasks'[r.task].scope = r.store
             /\ r.engine = IF loaded THEN <<"resumeToPipeableStream">>
                                     ELSE <<"renderToPipeableStream">>
             /\ loaded => r.postponed = dist.postponed]_vars

\* C16 witness: with a build that recorded an access and left a postponed state, two
\* requests with different cookies were each resumed under their own request store.
C16_Witness ==
    /\ Len(responses) = 2
    /\ dist.metadata.hasDynamicContent /\ dist.metadata.hasPostponedState
    /\ \A i \in 1..2 : responses[i].engine = <<"resumeToPipeableStream">>
    /\ responses[1].store # responses[2].store
    /\ stores[responses[1].store].request # stores[responses[2].store].request

Alice == <<"A", "l", "i", "c", "e">>
Contains(text, word) ==
    \E k \in 0..(Len(text) - Len(word)) : SubSeq(text, k + 1, k + Len(word)) = word

\* C17: under a request context cookies() gives the request's own cookies: for a
\* request whose Cookie header is username=Alice, get('username') has value Alice and
\* the greeting rendered for that request contains Alice; for a request without a
\* Cookie header get('username') is undefined and the greeting contains Guest.
C17_GreetingUsesRequestCookies ==
    [][\A i \in DOMAIN responses :
          (responses[i].greeting = <<>> /\ responses'[i].greeting # <<>>) =>
             LET req == responses[i].req
                 got == cookieGet(ParseCookies(stores[responses[i].store].request), Username)
             IN /\ (req.hasCookie /\ req.cookie = CookieAlice) =>
                      /\ got = [found |-> TRUE, value |-> Alice]
                      /\ Contains(responses'[i].greeting, Alice)
                      /\ ~Contains(responses'[i].greeting, Guest)
                /\ ~req.hasCookie =>
                      /\ ~got.found
                      /\ Contains(responses'[i].greeting, Guest)
                      /\ ~Contains(responses'[i].greeting, Alice)]_vars

\* C17 witness: two requests are being rendered at once, the first without a Cookie
\* header and greeted as Guest, the second with username=Alice and greeted as Alice.
C17_Witness ==
    /\ Len(responses) = 2
    /\ ~responses[1].req.hasCookie
    /\ responses[1].greeting = WelcomeBack \o Guest \o <<"!">>
    /\ responses[2].req.cookie = CookieAlice
    /\ responses[2].greeting = WelcomeBack \o Alice \o <<"!">>
    /\ lastOp.op = "renderUserGreeting" /\ lastOp.id = 1

\* C18: when the engine reports a shell failure for a request that is being rendered
\* (resume path or full-render path), the request ends there with an error response
\* sent to the client: nothing is streamed for it, then or later.
C18_ShellErrorIsFatal ==
    [][/\ lastOp'.op = "onShellError" =>
            LET i == lastOp'.id
            IN /\ responses'[i].status = "error"
               /\ responses'[i].body = <<"error response">>
       /\ \A i \in DOMAIN responses :
             responses[i].status \in {"error", "abandoned"} => responses'[i] = responses[i]]_vars

(***************************************************************************)
(* cachedComponent against cached.                                         *)
(***************************************************************************)
ComponentPrefix == <<"c", "o", "m", "p", "o", "n", "e", "n", "t", ":">>

\* call c is cached(name, fn)(props) and call d is cachedComponent(name, Component)(props)
\* with the same name and the same props
SameNameAndArguments(c, d) ==
    /\ calls[c].kind = "cached"
    /\ calls[d].kind = "component"
    /\ calls[c].name = calls[d].name
    /\ calls[c].input = <<Obj(calls[d].input)>>

\* one beginCacheRead per miss and none per hit; one endCacheRead per settled miss
CountingDiscipline ==
    /\ readsBegun = Cardinality({c \in DOMAIN calls : calls[c].invoked})
    /\ pendingCacheReads = Cardinality({c \in DOMAIN calls : calls[c].pc = "awaiting"})

\* C20 as stated: cachedComponent follows the contract of cached, with the same
\* counting discipline and the same key derivation, so that a cached() call and a
\* cachedComponent() call with equal logical name and arguments address the same
\* cache entry, and calls under different logical names never address the same entry.
C20_SameContractAsCached ==
    /\ CountingDiscipline
    /\ \A c, d \in DOMAIN calls :
          SameNameAndArguments(c, d) => calls[c].key = calls[d].key
    /\ \A c, d \in DOMAIN calls :
          calls[c].name # calls[d].name => calls[c].key # calls[d].key

\* C20 amended: cachedComponent has the counting discipline of cached (one
\* beginCacheRead and one endCacheRead per miss, none per hit) and a key derivation
\* of its own, "component:" + name + ":" + JSON.stringify(props), against
\* name + ":" + JSON.stringify(args) for cached.  Two cachedComponent calls address
\* the same entry exactly when their names and serialized props are equal; a cached
\* call and a cachedComponent call never address the same entry, equal names and
\* arguments included, so a hit of one wrapper is always served by a write of the
\* same wrapper.
C20_ComponentKeysAreNamespaced ==
    /\ CountingDiscipline
    /\ \A c \in DOMAIN calls :
          /\ calls[c].kind = "component" =>
                calls[c].key = ComponentPrefix \o calls[c].name \o <<":">>
                                 \o JsonStringifyProps(calls[c].input)
          /\ calls[c].kind = "cached" =>
                calls[c].key = calls[c].name \o <<":">> \o JsonStringifyArgs(calls[c].input)
          /\ calls[c].servedBy # 0 => calls[calls[c].servedBy].kind = calls[c].kind
    /\ \A c, d \in DOMAIN calls :
          /\ calls[c].kind # calls[d].kind => calls[c].key # calls[d].key
          /\ calls[c].kind = "component" /\ calls[d].kind = "component" =>
                (calls[c].key = calls[d].key
                   <=> /\ calls[c].name = calls[d].name
                       /\ JsonStringifyProps(calls[c].input)
                             = JsonStringifyProps(calls[d].input))

\* cached(name, fn)(props) stored its result, and a later cachedComponent call with
\* the same name and props missed, ran its component and stored an entry of its own
C20_Witness ==
    \E c, d \in DOMAIN calls :
        /\ SameNameAndArguments(c, d)
        /\ c < d
        /\ calls[c].pc = "returned" /\ calls[c].invoked
        /\ calls[d].pc = "returned" /\ calls[d].invoked
        /\ calls[c].key \in DOMAIN cacheStore
        /\ calls[d].key \in DOMAIN cacheStore

(***************************************************************************)
(* The cache store and its file.                                           *)
(***************************************************************************)
\* C21: clearCache() empties the in-memory cache and leaves the cache file as it
\* was; the file changes only in a step that is saveCache().
C21_ClearLeavesFileAlone ==
    [][/\ lastOp'.op = "clearCache" => cacheStore' = EmptyMap /\ cacheFile' = cacheFile
       /\ cacheFile' # cacheFile => lastOp'.op = "saveCache"]_vars

\* clearCache() has just emptied a store whose entries are in the file
C21_Witness ==
    /\ lastOp.op = "clearCache"
    /\ cacheStore = EmptyMap
    /\ cacheFile.exists
    /\ DOMAIN cacheFile.data # {}

\* C22: saveCache(); clearCache(); loadCache() gives back a store with exactly the
\* keys and values it had before saveCache().
C22_PersistenceRoundTrip ==
    lastOp.op = "loadCache" /\ lastOp.follows = "saveCache, clearCache"
        => cacheStore = lastOp.before

(***************************************************************************)
(* The cache signal across passes and event-loop turns.                    *)
(***************************************************************************)
\* C23: the pending-read counter is never negative, whatever the interleaving of
\* beginCacheRead, endCacheRead, cacheReady and resetCacheSignal, a reset issued
\* while memoized calls of the previous pass are still in flight included.
C23_CountNeverNegative == pendingCacheReads >= 0

\* a memoized call missed directly after the endCacheRead that scheduled check k
FollowedAtOnce(k) ==
    \E c \in DOMAIN calls : calls[c].afterEnd /\ BeganNextAfter(c, k)

\* C24: the endCacheRead that brings the count to 0 resolves no waiter in its own
\* step, and when a continuation running directly after it begins a read of its own,
\* the debounce check that endCacheRead scheduled does not resolve a waiter that was
\* pending at that endCacheRead.
C24_FollowUpReadDefersSettlement ==
    [][/\ lastOp'.op \in {"producerResolved", "producerRejected", "cacheMissThrew"}
            => \A w \in DOMAIN waiters : ~Resolves(w)
       /\ (/\ lastOp'.op = "check"
           /\ lastOp'.check.by = "endCacheRead"
           /\ lastOp'.check.pass = resets
           /\ FollowedAtOnce(lastOp'.check))
            => \A w \in DOMAIN waiters :
                  waiters[w].regAt <= lastOp'.check.born => ~Resolves(w)]_vars

(***************************************************************************)
(* The order of build().                                                   *)
(***************************************************************************)
Active(r) == r \in DOMAIN renders /\ renders[r].outcome = "pending"

\* C25: the prospective render is aborted only after the waiter of cacheReady() has
\* resolved; saveCache() runs only after that abort and after the prospective promise
\* has settled; resetCacheSignal() runs after saveCache() and before the final render
\* is started, which so starts on a signal that is reset; and the two renders are
\* never active at the same time.
C25_BuildOrdering ==
    [][/\ (renders # <<>> /\ ~renders[1].aborted /\ renders'[1].aborted)
            => waiters[1].status = "resolved"
       /\ cacheFile' # cacheFile
            => renders # <<>> /\ renders[1].aborted /\ renders'[1].outcome # "pending"
       /\ resets' # resets => cacheFile'.exists /\ Len(renders) = 1
       /\ (Len(renders) = 1 /\ Len(renders') = 2)
            => /\ resets' = 1
               /\ pendingCacheReads' = 0
               /\ ~hasStartedReading'
               /\ cacheReadyResolvers' = <<>>
               /\ \A c \in DOMAIN calls' : calls'[c].pass = 0
       /\ ~(Active(1) /\ Active(2))]_vars

\* the final render has just been started after a prospective pass that filled the
\* cache, was aborted and settled, and whose cache was saved
C25_Witness ==
    /\ buildPc = "finalGrace"
    /\ lastOp.op = "prospectiveSettles"
    /\ renders[1].aborted /\ ~Active(1) /\ Active(2)
    /\ cacheFile.exists /\ DOMAIN cacheFile.data # {}
    /\ resets = 1

RegisteredIdle(w) == ~waiters[w].busy /\ waiters[w].fresh

\* a read that began in waiter w's pass after w was registered has not ended
ReadOutstandingSince(w) ==
    \E c \in DOMAIN calls :
        /\ calls[c].pc = "awaiting"
        /\ calls[c].pass = waiters[w].pass
        /\ BeginIndex(c) > waiters[w].regAt

\* C27: a waiter registered by cacheReady() while the count is 0 and no read has
\* started in the pass is pending when cacheReady() returns; it is resolved only by a
\* debounce check, and only by one that runs while no read begun since is
\* outstanding: a read that starts during the window keeps the waiter pending until
\* that read has ended and a later check finds the count 0.
C27_IdleWaiterNeedsCleanCheck ==
    [][\A w \in DOMAIN waiters' :
          /\ w \notin DOMAIN waiters => waiters'[w].status = "pending"
          /\ (w \in DOMAIN waiters /\ RegisteredIdle(w) /\ Resolves(w))
               => /\ lastOp'.op = "check"
                  /\ pendingCacheReads = 0
                  /\ ~ReadOutstandingSince(w)]_vars

\* waiter w was registered in the current pass and has not been resolved
PendingNow(w) == waiters[w].status = "pending" /\ waiters[w].pass = resets

\* C28: whenever a debounce check finds the count 0, every waiter registered by
\* cacheReady() since the last settlement or reset is resolved by that check, and
\* none is left pending.
C28_WaitersResolveTogether ==
    [][(lastOp'.op = "check" /\ pendingCacheReads = 0)
         => /\ \A w \in DOMAIN waiters : PendingNow(w) => waiters'[w].status = "resolved"
            /\ cacheReadyResolvers' = <<>>]_vars

\* a check has just resolved two waiters that were registered at different times of
\* one pass, one before a read began and one while it was pending
C28_Witness ==
    /\ lastOp.op = "check"
    /\ \E v, w \in DOMAIN waiters :
          /\ v < w
          /\ waiters[v].pass = waiters[w].pass
          /\ waiters[v].status = "resolved" /\ waiters[w].status = "resolved"
          /\ ~waiters[v].busy /\ waiters[w].busy

(***************************************************************************)
(* Dynamic accessors under a prerender store.                              *)
(***************************************************************************)
\* the step was a call of a dynamic accessor made in a context of prerender store s
AccessorCalledUnder(s) ==
    /\ lastOp'.op \in {"accessor", "userGreetingStep"}
    /\ lastOp'.id \in DOMAIN tasks
    /\ tasks[lastOp'.id].scope = s
    /\ stores[s].type = "prerender"

\* C29: under a prerender store a dynamic accessor records exactly one access event,
\* carrying its own expression, at the end of that store's list, and then defers: it
\* returns no value to its caller.  The component that awaited it runs no further in
\* that pass: UserGreeting, which calls cookies() and then getCurrentTime(), records
\* cookies() only and never reaches its second call or its return.
C29_PrerenderAccessorDefers ==
    [][/\ \A s \in DOMAIN stores :
            AccessorCalledUnder(s)
              => /\ Len(stores'[s].dynamicAccesses) = Len(stores[s].dynamicAccesses) + 1
                 /\ SubSeq(stores'[s].dynamicAccesses, 1, Len(stores[s].dynamicAccesses))
                      = stores[s].dynamicAccesses
                 /\ stores'[s].dynamicAccesses[Len(stores'[s].dynamicAccesses)].expression
                      = lastOp'.expr
                 /\ stores'[s].accessedDynamicData
                 /\ lastOp'.out.kind = "postpone"
       /\ \A t \in DOMAIN tasks' :
            (tasks'[t].scope # 0 /\ stores'[tasks'[t].scope].type = "prerender")
              => tasks'[t].at \in {"none", "cookies()", "rejected"}]_vars

\* UserGreeting was rendered under a prerender store and under a request store: the
\* first recorded cookies() and ended there, the second ran to its return
C29_Witness ==
    \E t, u \in DOMAIN tasks :
        /\ tasks[t].at = "rejected"
        /\ stores[tasks[t].scope].type = "prerender"
        /\ \E i \in DOMAIN stores[tasks[t].scope].dynamicAccesses :
              stores[tasks[t].scope].dynamicAccesses[i] = [expression |-> "cookies()", stack |-> t]
        /\ tasks[u].at = "returned"
        /\ stores[tasks[u].scope].type = "request"

(***************************************************************************)
(* The stores of the two build passes.                                     *)
(***************************************************************************)
\* the accesses recorded in store s by context t
RecordedBy(ss, s, t) ==
    {i \in DOMAIN ss[s].dynamicAccesses : ss[s].dynamicAccesses[i].stack = t}

\* C30: the final pass runs under a store of its own that starts with an empty
\* dynamicAccesses list and accessedDynamicData false; an access made by the
\* prospective render, before or after the final pass started, is recorded in the
\* prospective store and leaves the final store as it was; every access in the final
\* store, and so every expression in the metadata written, was made by the final render.
C30_FinalStoreHoldsFinalPassOnly ==
    [][/\ (Len(renders) = 1 /\ Len(renders') = 2)
           => /\ renders'[2].store # renders'[1].store
              /\ stores'[renders'[2].store].dynamicAccesses = <<>>
              /\ stores'[renders'[2].store].accessedDynamicData = FALSE
       /\ Len(renders') = 2
           => /\ RecordedBy(stores', renders'[2].store, renders'[2].task)
                   = DOMAIN stores'[renders'[2].store].dynamicAccesses
              /\ RecordedBy(stores', renders'[2].store, renders'[1].task) = {}
       /\ (Len(renders) = 2 /\ lastOp'.op = "accessor" /\ lastOp'.id = renders[1].task)
           => /\ stores'[renders[2].store] = stores[renders[2].store]
              /\ Len(stores'[renders[1].store].dynamicAccesses)
                   = Len(stores[renders[1].store].dynamicAccesses) + 1
       /\ (buildPc' = "done" /\ buildPc # "done")
           => /\ Len(dist'.metadata.dynamicAccesses)
                   = Cardinality(RecordedBy(stores, renders[2].store, renders[2].task))
              /\ dist'.metadata.hasDynamicContent
                   = (RecordedBy(stores, renders[2].store, renders[2].task) # {})]_vars

\* The prospective render recorded an access after the final pass had started and
\* recorded an access of its own: each store holds its own pass's access.
C30_Witness ==
    /\ Len(renders) = 2
    /\ lastOp.op = "accessor"
    /\ lastOp.id = renders[1].task
    /\ Len(stores[renders[1].store].dynamicAccesses) = 1
    /\ Len(stores[renders[2].store].dynamicAccesses) = 1
    /\ stores[renders[2].store].dynamicAccesses[1].stack = renders[2].task

(***************************************************************************)
(* The access list of a prerender store.                                   *)
(***************************************************************************)
\* the step recorded an access in the context of store s
RecordsUnder(s) ==
    /\ lastOp'.op \in {"trackDynamicAccess", "accessor", "userGreetingStep"}
    /\ lastOp'.id \in DOMAIN tasks
    /\ tasks[lastOp'.id].scope = s

\* C31: the access list of a prerender store is append-only and in the order of the
\* invocations: a step that records an access under the store puts its event after
\* every earlier one and leaves the earlier ones as they were, every other step leaves
\* the list as it was, and getDynamicAccesses() gives the list of the caller's prerender
\* store, and the empty sequence under a request store or outside every run.
C31_AccessListAppendOnlyInOrder ==
    [][/\ \A s \in DOMAIN stores :
            stores[s].type = "prerender"
              => /\ stores'[s].type = "prerender"
                 /\ stores'[s].dynamicAccesses =
                      IF RecordsUnder(s)
                      THEN stores[s].dynamicAccesses
                             \o <<[expression |-> lastOp'.expr, stack |-> lastOp'.id]>>
                      ELSE stores[s].dynamicAccesses
       /\ lastOp'.op = "getDynamicAccesses"
            => LET s == tasks[lastOp'.id].scope IN
               /\ (s = 0 \/ stores[s].type = "request") => lastOp'.out.list = <<>>
               /\ (s # 0 /\ stores[s].type = "prerender")
                    => lastOp'.out.list = stores'[s].dynamicAccesses]_vars

\* C31 witness: getDynamicAccesses() under a prerender store gave the events of two
\* accessors, headers() invoked first and cookies() second
C31_Witness ==
    /\ lastOp.op = "getDynamicAccesses"
    /\ Len(lastOp.out.list) = 2
    /\ lastOp.out.list[1].expression = "headers()"
    /\ lastOp.out.list[2].expression = "cookies()"

(***************************************************************************)
(* A miss in the final phase.                                              *)
(***************************************************************************)
\* the step was a call of a wrapper whose key was not in the cache
MissedNow == Len(calls') = Len(calls) + 1 /\ ~IsCacheHit(cacheStore, calls'[Len(calls')].key)

\* C32: a miss is handled the same way in every phase, the final one included: the
\* call begins a cache read and invokes its producer; when the producer resolves, its
\* result is stored under the call's key, the read is ended and the result returned;
\* when it fails, the read is ended, nothing is stored and the producer's own error
\* reaches the caller.
C32_FinalMissComputesCold ==
    [][/\ MissedNow
           => LET c == Len(calls') IN
              /\ calls'[c].invoked
              /\ readsBegun' = readsBegun + 1
              /\ hasStartedReading'
              /\ calls'[c].pc = "awaiting" => pendingCacheReads' = pendingCacheReads + 1
              /\ calls'[c].pc = "threw"
                   => /\ pendingCacheReads' = pendingCacheReads
                      /\ calls'[c].thrown = calls'[c].producerError
                      /\ cacheStore' = cacheStore
              /\ calls'[c].pc \in {"awaiting", "threw"}
       /\ \A c \in DOMAIN calls :
            (calls[c].pc = "awaiting" /\ calls'[c].pc = "returned")
              => /\ cacheStore' = MapSet(cacheStore, calls[c].key, calls'[c].result)
                 /\ calls'[c].result # NoValue
                 /\ pendingCacheReads' = pendingCacheReads - 1
       /\ \A c \in DOMAIN calls :
            (calls[c].pc = "awaiting" /\ calls'[c].pc = "threw")
              => /\ cacheStore' = cacheStore
                 /\ calls'[c].thrown = calls'[c].producerError
                 /\ pendingCacheReads' = pendingCacheReads - 1]_vars

\* C32 witness: calls of both wrappers missed in the final phase; one computed its
\* value, which is in the cache, the other's producer failed
C32_Witness ==
    /\ currentPhase = "final"
    /\ \E c, d \in DOMAIN calls :
          /\ calls[c].kind = "cached" /\ calls[d].kind = "component"
          /\ calls[c].phase = "final" /\ calls[d].phase = "final"
          /\ calls[c].invoked /\ calls[d].invoked
          /\ calls[c].pc = "returned"
          /\ calls[c].key \in DOMAIN cacheStore
          /\ cacheStore[calls[c].key] = calls[c].result
          /\ calls[d].pc = "threw"

(***************************************************************************)
(* Debounce checks left over from the pass before a reset.                 *)
(***************************************************************************)
\* C33: a waiter registered by cacheReady() after a resetCacheSignal() is not resolved
\* by a debounce check that was scheduled before that reset: the check that resolves
\* it was scheduled in the waiter's own pass.
C33_StaleCheckCannotSettleNewPass ==
    [][\A w \in DOMAIN waiters :
          (Resolves(w) /\ waiters[w].pass > 0 /\ lastOp'.op = "check")
            => lastOp'.check.pass = waiters[w].pass]_vars

(***************************************************************************)
(* Calls of one key that overlap.                                          *)
(***************************************************************************)
\* call c awaits its producer and nothing is stored under its key
Unsettled(c) == calls[c].pc = "awaiting" /\ ~IsCacheHit(cacheStore, calls[c].key)

\* C34: a call that starts while an earlier call of the same key awaits its producer,
\* with nothing stored under the key, misses as well: it begins a read of its own and
\* invokes its producer, so the count rises once for each of them.  When a producer
\* resolves, its own call returns its result, that result replaces whatever is stored
\* under the key, one read is ended, and no other call is touched: the entry left in
\* the cache is the result of the producer that settled last.
C34_OverlappingMissesNotDeduplicated ==
    [][/\ (/\ Len(calls') = Len(calls) + 1
           /\ \E c \in DOMAIN calls :
                 Unsettled(c) /\ calls[c].key = calls'[Len(calls')].key)
           => /\ calls'[Len(calls')].invoked
              /\ readsBegun' = readsBegun + 1
              /\ calls'[Len(calls')].pc = "awaiting"
                   => pendingCacheReads' = pendingCacheReads + 1
              /\ \A c \in DOMAIN calls : calls'[c] = calls[c]
       /\ \A c \in DOMAIN calls :
            (calls[c].pc = "awaiting" /\ calls'[c].pc = "returned")
              => /\ calls[c].key \in DOMAIN cacheStore'
                 /\ cacheStore'[calls[c].key] = calls'[c].result
                 /\ writer'[calls[c].key] = c
                 /\ pendingCacheReads' = pendingCacheReads - 1
                 /\ \A d \in DOMAIN calls : d # c => calls'[d] = calls[d]]_vars

\* C34 witness: two calls of one key overlapped, both producers were invoked and gave
\* different results, each call returned its own, and the first call's producer
\* settled last, so its result is the one stored
C34_Witness ==
    /\ Len(calls) = 2
    /\ calls[1].key = calls[2].key
    /\ calls[1].invoked /\ calls[2].invoked
    /\ calls[1].pc = "returned" /\ calls[2].pc = "returned"
    /\ calls[1].result # calls[2].result
    /\ lastOp.op = "producerResolved" /\ lastOp.id = 1
    /\ cacheStore[calls[1].key] = calls[1].result
    /\ pendingCacheReads = 0
    /\ sinceClear = {1, 2}

(***************************************************************************)
(* The two flags of metadata.json.                                         *)
(***************************************************************************)
\* C35: the metadata build() writes never has hasPostponedState true with
\* hasDynamicContent false.
C35_PostponedImpliesDynamic ==
    buildPc = "done" => (dist.metadata.hasPostponedState => dist.metadata.hasDynamicContent)

(***************************************************************************)
(* The cache across the boundary between the passes.                       *)
(***************************************************************************)
\* C36: saveCache(), getCacheStats(), resetCacheSignal() and setRenderPhase() leave
\* the in-memory cache as it was, and the file saveCache() writes holds exactly the
\* keys and values of the in-memory cache at that moment.
C36_CacheUnchangedAcrossBoundary ==
    [][/\ lastOp'.op \in {"saveCache", "getCacheStats", "resetCacheSignal", "setRenderPhase"}
           => cacheStore' = cacheStore
       /\ lastOp'.op = "saveCache"
           => /\ cacheFile'.exists
              /\ StoreAfterLoad(EmptyMap, cacheFile') = cacheStore]_vars

(***************************************************************************)
(* The cache and the render contexts.                                      *)
(***************************************************************************)
\* C37: what a hit returns is the entry stored under the call's key, whatever the
\* render context of the call and whatever the context the entry was produced in: a
\* call served by the entry of another call returns that call's result.
C37_HitIgnoresRenderContext ==
    [][(Len(calls') = Len(calls) + 1 /\ IsCacheHit(cacheStore, calls'[Len(calls')].key))
         => LET d == calls'[Len(calls')] IN
            /\ ~d.invoked
            /\ d.pc = "returned"
            /\ d.result = cacheStore[d.key]
            /\ d.servedBy \in DOMAIN calls
            /\ d.result = calls[d.servedBy].result
            /\ UNCHANGED <<cacheStore, stores, tasks>>]_vars

\* C37 witness: an entry produced by a call under one request store was returned to a
\* call of the same key under another request's store
C37_Witness ==
    \E c, d \in DOMAIN calls :
        /\ calls[d].servedBy = c
        /\ ~calls[d].invoked
        /\ calls[d].result = calls[c].result
        /\ calls[d].result \in Values
        /\ tasks[calls[c].ctx].scope # 0
        /\ tasks[calls[d].ctx].scope # 0
        /\ tasks[calls[c].ctx].scope # tasks[calls[d].ctx].scope
        /\ stores[tasks[calls[c].ctx].scope].type = "request"
        /\ stores[tasks[calls[d].ctx].scope].type = "request"
        /\ stores[tasks[calls[c].ctx].scope].request
             # stores[tasks[calls[d].ctx].scope].request

(***************************************************************************)
(* The flag and the list of a prerender store.                             *)
(***************************************************************************)
\* C38: in every prerender store accessedDynamicData is true exactly when
\* dynamicAccesses is not empty, so hasAccessedDynamicData() in a context and the
\* hasDynamicContent that build() derives from the list's length agree.
C38_FlagMatchesList ==
    /\ \A s \in DOMAIN stores :
          stores[s].type = "prerender"
            => /\ stores[s].accessedDynamicData <=> (stores[s].dynamicAccesses # <<>>)
               /\ Metadata(stores[s], PostponedNull).hasDynamicContent
                    = stores[s].accessedDynamicData
    /\ \A t \in DOMAIN tasks :
          hasAccessedDynamicData(t) <=> (Len(DynamicAccessesOf(t)) > 0)

\* C38 witness: one prerender store has recorded an access through an accessor and has
\* its flag set, another has recorded none and has it clear
C38_Witness ==
    \E s, o \in DOMAIN stores :
        /\ stores[s].type = "prerender" /\ stores[o].type = "prerender"
        /\ stores[s].accessedDynamicData
        /\ Len(stores[s].dynamicAccesses) = 1
        /\ stores[s].dynamicAccesses[1].expression = "connection()"
        /\ ~stores[o].accessedDynamicData
        /\ stores[o].dynamicAccesses = <<>>
        /\ \E t \in DOMAIN tasks : hasAccessedDynamicData(t)

(***************************************************************************)
(* How entries come into the cache and leave it.                           *)
(***************************************************************************)
\* the step stored the result of a producer that resolved, under its call's key
StoredByProducer(k) ==
    /\ lastOp'.op = "producerResolved"
    /\ calls[lastOp'.id].pc = "awaiting"
    /\ calls[lastOp'.id].invoked
    /\ calls[lastOp'.id].key = k
    /\ calls'[lastOp'.id].pc = "returned"
    /\ cacheStore'[k] = calls'[lastOp'.id].result

\* the step was loadCache() and set the entry the file holds under k
LoadedFromFile(k) ==
    /\ lastOp'.op = "loadCache"
    /\ cacheFile.exists
    /\ k \in DOMAIN cacheFile.data
    /\ cacheStore'[k] = JsonParseValue(cacheFile.data[k])

\* C39: an entry is put in the cache or changed only by the step in which its call's
\* producer resolved or by loadCache() setting what the file holds; an entry leaves
\* the cache only by clearCache(); a hit, a producer's failure, saveCache() and the
\* signal's operations (the reads begun and ended, cacheReady, resetCacheSignal) leave
\* the cache as it was.
C39_EntriesWrittenOnlyBySuccessOrLoad ==
    [][/\ \A k \in DOMAIN cacheStore' :
            (k \notin DOMAIN cacheStore \/ cacheStore'[k] # cacheStore[k])
              => (StoredByProducer(k) \/ LoadedFromFile(k))
       /\ (DOMAIN cacheStore \ DOMAIN cacheStore' # {}) => lastOp'.op = "clearCache"
       /\ lastOp'.op \in {"cacheHit", "cacheMiss", "cacheMissThrew", "producerRejected",
                           "saveCache", "cacheReady", "resetCacheSignal"}
            => cacheStore' = cacheStore]_vars

\* C39 witness: an entry stored by a producer was saved, cleared and given back by
\* loadCache(), after a reset and after another call's producer had failed
C39_Witness ==
    /\ resets > 0
    /\ lastOp.op = "loadCache"
    /\ lastOp.follows = "saveCache, clearCache"
    /\ \E k \in DOMAIN cacheStore : writer[k] = 0 /\ cacheStore[k] = "v1"
    /\ \E c \in DOMAIN calls : calls[c].pc = "threw"
    /\ \E c \in DOMAIN calls : calls[c].pc = "returned" /\ calls[c].invoked

====
